---- MODULE Spec2Model ----
(***************************************************************************)
(* Model of the in-memory context-memory server: the memoryStore map, the  *)
(* memoryStats counters and the three tool handlers memory_manage,         *)
(* memory_query and memory_stats of the modular build (index.js).          *)
(*                                                                         *)
(* Strings are sequences of one-character strings, so that toLowerCase and *)
(* String.prototype.includes are computed and not assumed.  Timestamps are *)
(* the millisecond readings of the wall clock that toISOString renders.    *)
(* The importance values "低", "中", "高" are written "low", "medium",     *)
(* "high"; the filter value "全部" is written "all"; the sort keys "时间"  *)
(* and "重要性" are written "time" and "importance".                       *)
(***************************************************************************)
EXTENDS Integers, Sequences, FiniteSets, TLC

VARIABLES
    store,        \* memoryStore: the topics in Map insertion order
    memoryStats,  \* the five counters of stats.js
    clock,        \* the latest reading of the wall clock (ms)
    last          \* the last tool call: its arguments and what it returned

vars == <<store, memoryStats, clock, last>>

----------------------------------------------------------------------------
(* Bounds of the model *)

MaxClock == 1
MaxAccess == 3
MaxStored == 2
MaxViewed == 3
MaxIdCalls == 4

----------------------------------------------------------------------------
(* Strings *)

Empty == <<>>

Lower(c) ==
    CASE c = "A" -> "a"
      [] c = "B" -> "b"
      [] c = "C" -> "c"
      [] c = "M" -> "m"
      [] c = "X" -> "x"
      [] OTHER -> c

toLowerCase(s) == [i \in 1..Len(s) |-> Lower(s[i])]

includes(s, sub) ==
    \E k \in 0..(Len(s) - Len(sub)) :
        \A i \in 1..Len(sub) : s[k + i] = sub[i]

Digits36 ==
    <<"0", "1", "2", "3", "4", "5", "6", "7", "8", "9", "a", "b",
      "c", "d", "e", "f", "g", "h", "i", "j", "k", "l", "m", "n",
      "o", "p", "q", "r", "s", "t", "u", "v", "w", "x", "y", "z">>

RECURSIVE toString36(_)
toString36(n) ==
    IF n < Len(Digits36) THEN <<Digits36[n + 1]>>
    ELSE toString36(n \div Len(Digits36)) \o <<Digits36[(n % Len(Digits36)) + 1]>>

RECURSIVE DecimalText(_)
DecimalText(n) ==
    IF n < 10 THEN <<Digits36[n + 1]>>
    ELSE DecimalText(n \div 10) \o <<Digits36[(n % 10) + 1]>>

\* a metadata value is a string or a number (z.any())
StrVal(s) == [type |-> "string", v |-> s]
NumVal(n) == [type |-> "number", v |-> n]

\* String(value)
String(value) == IF value.type = "string" THEN value.v ELSE DecimalText(value.v)

----------------------------------------------------------------------------
(* utils.js *)

generateId(now, rnd) == toString36(now) \o rnd

TimestampLen == 24
RecordJsonOverhead == 93

RECURSIVE SumOver(_, _)
SumOver(f, keys) ==
    IF keys = {} THEN 0
    ELSE LET k == CHOOSE x \in keys : TRUE
         IN f[k] + SumOver(f, keys \ {k})

\* length of JSON.stringify(value) for one metadata value
ValueJsonLen(value) ==
    IF value.type = "string" THEN Len(value.v) + 2 ELSE Len(DecimalText(value.v))

\* length of JSON.stringify(metadata): {"k":v,...}; every key is one character
MetadataJsonLen(metadata) ==
    LET keys == DOMAIN metadata
        n == Cardinality(keys)
    IN 2 + SumOver([k \in keys |-> 4 + ValueJsonLen(metadata[k])], keys)
         + (IF n > 0 THEN n - 1 ELSE 0)

ImportanceLen(importance) == 1

calculateRecordSize(record) ==
    RecordJsonOverhead + Len(record.id) + Len(record.content)
      + ImportanceLen(record.importance) + Len(record.context)
      + MetadataJsonLen(record.metadata) + TimestampLen + TimestampLen

----------------------------------------------------------------------------
(* stats.js *)

Null == <<>>
Some(x) == <<x>>

InitStats ==
    [totalTopics |-> 0, totalRecords |-> 0, totalMemorySize |-> 0,
     lastAccessTime |-> Null, accessCount |-> 0]

\* updateStats without the remove_topic branch
updateStatsKeepingTopics(st, action, record, now) ==
    LET touched == [st EXCEPT !.lastAccessTime = Some(now),
                              !.accessCount = @ + 1]
    IN CASE action = "add_topic" ->
              [touched EXCEPT !.totalTopics = @ + 1]
         [] action = "add_record" ->
              [touched EXCEPT !.totalRecords = @ + 1,
                              !.totalMemorySize =
                                  IF record # Null
                                  THEN @ + calculateRecordSize(record[1])
                                  ELSE @]
         [] action = "remove_record" ->
              [touched EXCEPT !.totalRecords = @ - 1,
                              !.totalMemorySize =
                                  IF record # Null
                                  THEN @ - calculateRecordSize(record[1])
                                  ELSE @]
         [] OTHER -> touched

\* record is Null or Some(r); now is the reading getCurrentTimestamp takes
\* remove_record without the subtraction of the record's size
updateStatsKeepingSize(st, action, record, now) ==
    LET touched == [st EXCEPT !.lastAccessTime = Some(now),
                              !.accessCount = @ + 1]
    IN CASE action = "add_topic" ->
              [touched EXCEPT !.totalTopics = @ + 1]
         [] action = "add_record" ->
              [touched EXCEPT !.totalRecords = @ + 1,
                              !.totalMemorySize =
                                  IF record # Null
                                  THEN @ + calculateRecordSize(record[1])
                                  ELSE @]
         [] action = "remove_topic" ->
              [touched EXCEPT !.totalTopics = @ - 1]
         [] action = "remove_record" ->
              [touched EXCEPT !.totalRecords = @ - 1]
         [] OTHER -> touched

updateStats(st, action, record, now) ==
    LET touched == [st EXCEPT !.lastAccessTime = Some(now),
                              !.accessCount = @ + 1]
    IN CASE action = "add_topic" ->
              [touched EXCEPT !.totalTopics = @ + 1]
         [] action = "add_record" ->
              [touched EXCEPT !.totalRecords = @ + 1,
                              !.totalMemorySize =
                                  IF record # Null
                                  THEN @ + calculateRecordSize(record[1])
                                  ELSE @]
         [] action = "remove_topic" ->
              [touched EXCEPT !.totalTopics = @ - 1]
         [] action = "remove_record" ->
              [touched EXCEPT !.totalRecords = @ - 1,
                              !.totalMemorySize =
                                  IF record # Null
                                  THEN @ - calculateRecordSize(record[1])
                                  ELSE @]
         [] OTHER -> touched

----------------------------------------------------------------------------
(* store.js: a Map from topic name to topic, iterated in insertion order *)

StoreHas(s, topic) == \E i \in DOMAIN s : s[i].name = topic

StoreIndex(s, topic) == CHOOSE i \in DOMAIN s : s[i].name = topic

StoreGet(s, topic) == s[StoreIndex(s, topic)]

\* delete that takes the oldest entry of the Map
StoreDeleteFirst(s, topic) == Tail(s)

\* delete on a Map that keeps the entry
StoreDeleteKeeping(s, topic) == s

StoreDelete(s, topic) ==
    LET i == StoreIndex(s, topic)
    IN SubSeq(s, 1, i - 1) \o SubSeq(s, i + 1, Len(s))

\* slice in the place of splice: the array keeps the element
spliceKeeping(records, i) == records

\* what records.splice(i, 1) leaves in the array (i is 1-based here)
splice(records, i) == SubSeq(records, 1, i - 1) \o SubSeq(records, i + 1, Len(records))

\* Array.prototype.findLastIndex in the place of findIndex
findLastIndex(records, recordId) ==
    IF \E i \in DOMAIN records : records[i].id = recordId
    THEN CHOOSE i \in DOMAIN records :
            /\ records[i].id = recordId
            /\ \A j \in (i + 1)..Len(records) : records[j].id # recordId
    ELSE 0

\* Array.prototype.findIndex, 1-based; 0 when nothing is found
findIndex(records, recordId) ==
    IF \E i \in DOMAIN records : records[i].id = recordId
    THEN CHOOSE i \in DOMAIN records :
            /\ records[i].id = recordId
            /\ \A j \in 1..(i - 1) : records[j].id # recordId
    ELSE 0

----------------------------------------------------------------------------
(* What a tool call can be given *)

TopicNames == {"t1", "t2"}
ManageActions ==
    {"create_topic", "create_record", "update_topic", "update_record",
     "delete_topic", "delete_record"}
QueryActions == {"list_topics", "view_topic", "search", "get_record"}
Importances == {"low", "medium", "high"}
ImportanceFilters == {"all"} \cup Importances
SortKeys == {"time", "importance"}

EmptyMeta == [k \in {} |-> StrVal(Empty)]

\* the new object in the place of the spread of both
MergeReplacing(old, new) == new

\* { ...old, ...new }
Merge(old, new) ==
    [k \in (DOMAIN old) \cup (DOMAIN new) |->
        IF k \in DOMAIN new THEN new[k] ELSE old[k]]

\* the readings n successive calls of Date.now() can return, none above hi
Readings(n, hi) ==
    {r \in [1..n -> clock..hi] : \A i \in 1..(n - 1) : r[i] <= r[i + 1]}

ManageResult(action, outcome, topic, recordId) ==
    [tool |-> "memory_manage", action |-> action, outcome |-> outcome,
     topic |-> topic, recordId |-> recordId]

Init ==
    /\ store = <<>>
    /\ memoryStats = InitStats
    /\ clock = 0
    /\ last = [tool |-> "none", action |-> "none", outcome |-> "none"]

----------------------------------------------------------------------------
(* memory_manage *)

\* create_topic without the has() test: Map.set replaces the stored topic
CreateTopicOverwriting(topic, description, tags, rnd, r) ==
    LET newTopic ==
            [id |-> generateId(r[1], rnd), name |-> topic,
             description |-> description, tags |-> tags,
             records |-> <<>>, createdAt |-> r[2], updatedAt |-> r[3]]
    IN /\ store' = IF StoreHas(store, topic)
                   THEN [store EXCEPT ![StoreIndex(store, topic)] = newTopic]
                   ELSE Append(store, newTopic)
       /\ memoryStats' = updateStats(memoryStats, "add_topic", Null, r[4])
       /\ clock' = r[4]
       /\ last' = ManageResult("create_topic", "ok", topic, Empty)
                   @@ [id |-> newTopic.id]

\* r: the readings of generateId, createdAt, updatedAt and updateStats
CreateTopic(topic, description, tags, rnd, r) ==
    IF StoreHas(store, topic)
    THEN /\ last' = ManageResult("create_topic", "AlreadyExists", topic, Empty)
         /\ UNCHANGED <<store, memoryStats, clock>>
    ELSE LET newTopic ==
                 [id |-> generateId(r[1], rnd), name |-> topic,
                  description |-> description, tags |-> tags,
                  records |-> <<>>, createdAt |-> r[2], updatedAt |-> r[3]]
         IN /\ store' = Append(store, newTopic)
            /\ memoryStats' = updateStats(memoryStats, "add_topic", Null, r[4])
            /\ clock' = r[4]
            /\ last' = ManageResult("create_topic", "ok", topic, Empty)
                        @@ [id |-> newTopic.id]

\* create_record without the new reading of the topic's updatedAt
CreateRecordKeepingTime(topic, content, importance, context, metadata, rnd, r) ==
    IF content = Empty
    THEN /\ last' = ManageResult("create_record", "ValidationError", topic, Empty)
         /\ UNCHANGED <<store, memoryStats, clock>>
    ELSE IF ~StoreHas(store, topic)
    THEN /\ last' = ManageResult("create_record", "NotFound", topic, Empty)
         /\ UNCHANGED <<store, memoryStats, clock>>
    ELSE LET newRecord ==
                 [id |-> generateId(r[1], rnd), content |-> content,
                  importance |-> importance, context |-> context,
                  metadata |-> metadata, createdAt |-> r[2], updatedAt |-> r[3]]
             ti == StoreIndex(store, topic)
         IN /\ store' = [store EXCEPT ![ti].records = Append(@, newRecord)]
            /\ memoryStats' =
                   updateStats(memoryStats, "add_record", Some(newRecord), r[5])
            /\ clock' = r[5]
            /\ last' = ManageResult("create_record", "ok", topic, newRecord.id)
                        @@ [count |-> Len(store[ti].records) + 1]

\* r: the readings of generateId, createdAt, updatedAt, the topic's updatedAt
\* and updateStats
CreateRecord(topic, content, importance, context, metadata, rnd, r) ==
    IF content = Empty
    THEN /\ last' = ManageResult("create_record", "ValidationError", topic, Empty)
         /\ UNCHANGED <<store, memoryStats, clock>>
    ELSE IF ~StoreHas(store, topic)
    THEN /\ last' = ManageResult("create_record", "NotFound", topic, Empty)
         /\ UNCHANGED <<store, memoryStats, clock>>
    ELSE LET newRecord ==
                 [id |-> generateId(r[1], rnd), content |-> content,
                  importance |-> importance, context |-> context,
                  metadata |-> metadata, createdAt |-> r[2], updatedAt |-> r[3]]
             ti == StoreIndex(store, topic)
         IN /\ store' = [store EXCEPT ![ti].records = Append(@, newRecord),
                                      ![ti].updatedAt = r[4]]
            /\ memoryStats' =
                   updateStats(memoryStats, "add_record", Some(newRecord), r[5])
            /\ clock' = r[5]
            /\ last' = ManageResult("create_record", "ok", topic, newRecord.id)
                        @@ [count |-> Len(store[ti].records) + 1]

\* update_topic without the new reading of updatedAt
UpdateTopicKeepingTime(topic, description, tags, r) ==
    IF ~StoreHas(store, topic)
    THEN /\ last' = ManageResult("update_topic", "NotFound", topic, Empty)
         /\ UNCHANGED <<store, memoryStats, clock>>
    ELSE LET ti == StoreIndex(store, topic)
         IN /\ store' =
                   [store EXCEPT
                      ![ti].description =
                          IF description # Empty THEN description ELSE @,
                      ![ti].tags = IF Len(tags) > 0 THEN tags ELSE @]
            /\ clock' = r[1]
            /\ last' = ManageResult("update_topic", "ok", topic, Empty)
                        @@ [description |-> description, tags |-> tags]
            /\ UNCHANGED memoryStats

\* r: the reading of the topic's updatedAt
UpdateTopic(topic, description, tags, r) ==
    IF ~StoreHas(store, topic)
    THEN /\ last' = ManageResult("update_topic", "NotFound", topic, Empty)
         /\ UNCHANGED <<store, memoryStats, clock>>
    ELSE LET ti == StoreIndex(store, topic)
         IN /\ store' =
                   [store EXCEPT
                      ![ti].description =
                          IF description # Empty THEN description ELSE @,
                      ![ti].tags = IF Len(tags) > 0 THEN tags ELSE @,
                      ![ti].updatedAt = r[1]]
            /\ clock' = r[1]
            /\ last' = ManageResult("update_topic", "ok", topic, Empty)
                        @@ [description |-> description, tags |-> tags]
            /\ UNCHANGED memoryStats

\* update_record that writes the importance it is given, the default too
UpdateRecordSettingImportance(topic, recordId, content, importance, context, metadata, r) ==
    IF recordId = Empty
    THEN /\ last' = ManageResult("update_record", "ValidationError", topic, recordId)
         /\ UNCHANGED <<store, memoryStats, clock>>
    ELSE IF ~StoreHas(store, topic)
    THEN /\ last' = ManageResult("update_record", "NotFound", topic, recordId)
         /\ UNCHANGED <<store, memoryStats, clock>>
    ELSE LET ti == StoreIndex(store, topic)
             ri == findIndex(store[ti].records, recordId)
         IN IF ri = 0
            THEN /\ last' = ManageResult("update_record", "NotFound", topic, recordId)
                 /\ UNCHANGED <<store, memoryStats, clock>>
            ELSE /\ store' =
                        [store EXCEPT
                           ![ti].records[ri].content =
                               IF content # Empty THEN content ELSE @,
                           ![ti].records[ri].importance = importance,
                           ![ti].records[ri].context =
                               IF context # Empty THEN context ELSE @,
                           ![ti].records[ri].metadata =
                               IF DOMAIN metadata # {} THEN Merge(@, metadata) ELSE @,
                           ![ti].records[ri].updatedAt = r[1],
                           ![ti].updatedAt = r[2]]
                 /\ clock' = r[2]
                 /\ last' = ManageResult("update_record", "ok", topic, recordId)
                             @@ [content |-> content, importance |-> importance,
                                 context |-> context, metadata |-> metadata]
                 /\ UNCHANGED memoryStats

\* update_record that writes the content and the context it is given, empty
\* or not
UpdateRecordOverwriting(topic, recordId, content, importance, context, metadata, r) ==
    IF recordId = Empty
    THEN /\ last' = ManageResult("update_record", "ValidationError", topic, recordId)
         /\ UNCHANGED <<store, memoryStats, clock>>
    ELSE IF ~StoreHas(store, topic)
    THEN /\ last' = ManageResult("update_record", "NotFound", topic, recordId)
         /\ UNCHANGED <<store, memoryStats, clock>>
    ELSE LET ti == StoreIndex(store, topic)
             ri == findIndex(store[ti].records, recordId)
         IN IF ri = 0
            THEN /\ last' = ManageResult("update_record", "NotFound", topic, recordId)
                 /\ UNCHANGED <<store, memoryStats, clock>>
            ELSE /\ store' =
                        [store EXCEPT
                           ![ti].records[ri].content = content,
                           ![ti].records[ri].importance =
                               IF importance # "medium" THEN importance ELSE @,
                           ![ti].records[ri].context = context,
                           ![ti].records[ri].metadata =
                               IF DOMAIN metadata # {} THEN Merge(@, metadata) ELSE @,
                           ![ti].records[ri].updatedAt = r[1],
                           ![ti].updatedAt = r[2]]
                 /\ clock' = r[2]
                 /\ last' = ManageResult("update_record", "ok", topic, recordId)
                             @@ [content |-> content, importance |-> importance,
                                 context |-> context, metadata |-> metadata]
                 /\ UNCHANGED memoryStats

\* r: the readings of the record's and of the topic's updatedAt
UpdateRecord(topic, recordId, content, importance, context, metadata, r) ==
    IF recordId = Empty
    THEN /\ last' = ManageResult("update_record", "ValidationError", topic, recordId)
         /\ UNCHANGED <<store, memoryStats, clock>>
    ELSE IF ~StoreHas(store, topic)
    THEN /\ last' = ManageResult("update_record", "NotFound", topic, recordId)
         /\ UNCHANGED <<store, memoryStats, clock>>
    ELSE LET ti == StoreIndex(store, topic)
             ri == findIndex(store[ti].records, recordId)
         IN IF ri = 0
            THEN /\ last' = ManageResult("update_record", "NotFound", topic, recordId)
                 /\ UNCHANGED <<store, memoryStats, clock>>
            ELSE /\ store' =
                        [store EXCEPT
                           ![ti].records[ri].content =
                               IF content # Empty THEN content ELSE @,
                           ![ti].records[ri].importance =
                               IF importance # "medium" THEN importance ELSE @,
                           ![ti].records[ri].context =
                               IF context # Empty THEN context ELSE @,
                           ![ti].records[ri].metadata =
                               IF DOMAIN metadata # {} THEN Merge(@, metadata) ELSE @,
                           ![ti].records[ri].updatedAt = r[1],
                           ![ti].updatedAt = r[2]]
                 /\ clock' = r[2]
                 /\ last' = ManageResult("update_record", "ok", topic, recordId)
                             @@ [content |-> content, importance |-> importance,
                                 context |-> context, metadata |-> metadata]
                 /\ UNCHANGED memoryStats

\* delete_topic without the confirm test
DeleteTopicUnconfirmed(topic, confirm, r) ==
    IF ~StoreHas(store, topic)
    THEN /\ last' = ManageResult("delete_topic", "NotFound", topic, Empty)
                    @@ [confirm |-> confirm]
         /\ UNCHANGED <<store, memoryStats, clock>>
    ELSE /\ store' = StoreDelete(store, topic)
         /\ memoryStats' = updateStats(memoryStats, "remove_topic", Null, r[1])
         /\ clock' = r[1]
         /\ last' = ManageResult("delete_topic", "ok", topic, Empty)
                    @@ [confirm |-> confirm,
                        recordCount |-> Len(StoreGet(store, topic).records)]

\* r: the reading of updateStats
DeleteTopic(topic, confirm, r) ==
    IF ~StoreHas(store, topic)
    THEN /\ last' = ManageResult("delete_topic", "NotFound", topic, Empty)
                    @@ [confirm |-> confirm]
         /\ UNCHANGED <<store, memoryStats, clock>>
    ELSE IF ~confirm
    THEN /\ last' = ManageResult("delete_topic", "ConfirmationRequired", topic, Empty)
                    @@ [confirm |-> confirm,
                        recordCount |-> Len(StoreGet(store, topic).records)]
         /\ UNCHANGED <<store, memoryStats, clock>>
    ELSE /\ store' = StoreDelete(store, topic)
         /\ memoryStats' = updateStats(memoryStats, "remove_topic", Null, r[1])
         /\ clock' = r[1]
         /\ last' = ManageResult("delete_topic", "ok", topic, Empty)
                    @@ [confirm |-> confirm,
                        recordCount |-> Len(StoreGet(store, topic).records)]

\* delete_record without the test of recordIndex === -1: splice(-1, 1) takes
\* the last record of the topic
DeleteRecordUnchecked(topic, recordId, r) ==
    IF recordId = Empty
    THEN /\ last' = ManageResult("delete_record", "ValidationError", topic, recordId)
         /\ UNCHANGED <<store, memoryStats, clock>>
    ELSE IF ~StoreHas(store, topic)
    THEN /\ last' = ManageResult("delete_record", "NotFound", topic, recordId)
         /\ UNCHANGED <<store, memoryStats, clock>>
    ELSE LET ti == StoreIndex(store, topic)
             found == findIndex(store[ti].records, recordId)
             recordIndex == IF found = 0 THEN Len(store[ti].records) ELSE found
             removedRecord == IF recordIndex = 0 THEN Null
                              ELSE Some(store[ti].records[recordIndex])
         IN /\ store' = [store EXCEPT
                           ![ti].records = splice(@, recordIndex),
                           ![ti].updatedAt = r[1]]
            /\ memoryStats' =
                   updateStats(memoryStats, "remove_record", removedRecord, r[2])
            /\ clock' = r[2]
            /\ last' = ManageResult("delete_record", "ok", topic, recordId)
                        @@ [removedRecord |-> removedRecord]

\* delete_record refreshing the topic's updatedAt before it looks the record up
DeleteRecordTouchingFirst(topic, recordId, r) ==
    IF recordId = Empty
    THEN /\ last' = ManageResult("delete_record", "ValidationError", topic, recordId)
         /\ UNCHANGED <<store, memoryStats, clock>>
    ELSE IF ~StoreHas(store, topic)
    THEN /\ last' = ManageResult("delete_record", "NotFound", topic, recordId)
         /\ UNCHANGED <<store, memoryStats, clock>>
    ELSE LET ti == StoreIndex(store, topic)
             recordIndex == findIndex(store[ti].records, recordId)
         IN IF recordIndex = 0
            THEN /\ last' = ManageResult("delete_record", "NotFound", topic, recordId)
                 /\ store' = [store EXCEPT ![ti].updatedAt = r[1]]
                 /\ clock' = r[1]
                 /\ UNCHANGED memoryStats
            ELSE LET removedRecord == store[ti].records[recordIndex]
                 IN /\ store' = [store EXCEPT
                                   ![ti].records = splice(@, recordIndex),
                                   ![ti].updatedAt = r[1]]
                    /\ memoryStats' =
                           updateStats(memoryStats, "remove_record",
                                       Some(removedRecord), r[2])
                    /\ clock' = r[2]
                    /\ last' = ManageResult("delete_record", "ok", topic, recordId)
                                @@ [removedRecord |-> removedRecord]

\* r: the readings of the topic's updatedAt and of updateStats
DeleteRecord(topic, recordId, r) ==
    IF recordId = Empty
    THEN /\ last' = ManageResult("delete_record", "ValidationError", topic, recordId)
         /\ UNCHANGED <<store, memoryStats, clock>>
    ELSE IF ~StoreHas(store, topic)
    THEN /\ last' = ManageResult("delete_record", "NotFound", topic, recordId)
         /\ UNCHANGED <<store, memoryStats, clock>>
    ELSE LET ti == StoreIndex(store, topic)
             recordIndex == findIndex(store[ti].records, recordId)
         IN IF recordIndex = 0
            THEN /\ last' = ManageResult("delete_record", "NotFound", topic, recordId)
                 /\ UNCHANGED <<store, memoryStats, clock>>
            ELSE LET removedRecord == store[ti].records[recordIndex]
                 IN /\ store' = [store EXCEPT
                                   ![ti].records = splice(@, recordIndex),
                                   ![ti].updatedAt = r[1]]
                    /\ memoryStats' =
                           updateStats(memoryStats, "remove_record",
                                       Some(removedRecord), r[2])
                    /\ clock' = r[2]
                    /\ last' = ManageResult("delete_record", "ok", topic, recordId)
                                @@ [removedRecord |-> removedRecord]

\* the default branch of the switch: an action outside the enumeration
ManageDefault(action, topic) ==
    /\ action \notin ManageActions
    /\ last' = ManageResult(action, "UnsupportedOperation", topic, Empty)
    /\ UNCHANGED <<store, memoryStats, clock>>

----------------------------------------------------------------------------
(* memory_query *)

QueryResult(action, outcome) ==
    [tool |-> "memory_query", action |-> action, outcome |-> outcome]

\* Array.prototype.sort with the comparator (a, b) => key(b) - key(a), which
\* is stable: an element goes behind every element whose key is not smaller.
\* The elements carry their key in the field "key".
\* an insertion that puts an element before the elements of equal key
RECURSIVE InsertDescUnstable(_, _)
InsertDescUnstable(sorted, e) ==
    IF sorted = <<>> THEN <<e>>
    ELSE IF Head(sorted).key > e.key
         THEN <<Head(sorted)>> \o InsertDescUnstable(Tail(sorted), e)
         ELSE <<e>> \o sorted

RECURSIVE InsertDesc(_, _)
InsertDesc(sorted, e) ==
    IF sorted = <<>> THEN <<e>>
    ELSE IF Head(sorted).key >= e.key
         THEN <<Head(sorted)>> \o InsertDesc(Tail(sorted), e)
         ELSE <<e>> \o sorted

RECURSIVE SortDesc(_)
SortDesc(s) ==
    IF s = <<>> THEN <<>>
    ELSE InsertDesc(SortDesc(SubSeq(s, 1, Len(s) - 1)), s[Len(s)])

\* the element at limit taken as well
sliceInclusive(s, limit) ==
    SubSeq(s, 1, IF limit + 1 < Len(s) THEN limit + 1 ELSE Len(s))

\* Array.prototype.slice(0, limit)
slice(s, limit) == SubSeq(s, 1, IF limit < Len(s) THEN limit ELSE Len(s))

\* the summary with the creation time in both places
TopicSummaryCreatedAt(t) ==
    [name |-> t.name, description |-> t.description, tags |-> t.tags,
     count |-> Len(t.records), createdAt |-> t.createdAt,
     updatedAt |-> t.createdAt]

TopicSummary(t) ==
    [name |-> t.name, description |-> t.description, tags |-> t.tags,
     count |-> Len(t.records), createdAt |-> t.createdAt,
     updatedAt |-> t.updatedAt]

\* the summaries from the newest topic to the oldest
ListTopicsNewestFirst ==
    /\ last' = [QueryResult("list_topics", "ok") EXCEPT
                  !.outcome = "ok"] @@
               [size |-> Len(store),
                topics |-> [i \in DOMAIN store |->
                              TopicSummary(store[Len(store) + 1 - i])]]
    /\ UNCHANGED <<store, memoryStats, clock>>

ListTopics ==
    /\ last' = [QueryResult("list_topics", "ok") EXCEPT
                  !.outcome = "ok"] @@
               [size |-> Len(store),
                topics |-> [i \in DOMAIN store |-> TopicSummary(store[i])]]
    /\ UNCHANGED <<store, memoryStats, clock>>

\* the order of the names instead of the order of the ranks
importanceOrderByName(importance) ==
    CASE importance = "high" -> 1
      [] importance = "low" -> 2
      [] importance = "medium" -> 3

importanceOrder(importance) ==
    CASE importance = "high" -> 3
      [] importance = "medium" -> 2
      [] importance = "low" -> 1

\* view_topic that sorts topicData.records itself, not a copy
ViewTopicSortingInPlace(topic, sortBy, limit) ==
    IF topic = ""
    THEN /\ last' = QueryResult("view_topic", "ValidationError") @@ [topic |-> topic]
         /\ UNCHANGED <<store, memoryStats, clock>>
    ELSE IF ~StoreHas(store, topic)
    THEN /\ last' = QueryResult("view_topic", "NotFound") @@ [topic |-> topic]
         /\ UNCHANGED <<store, memoryStats, clock>>
    ELSE LET topicData == StoreGet(store, topic)
             keyed == [i \in DOMAIN topicData.records |->
                         [key |-> IF sortBy = "time"
                                  THEN topicData.records[i].createdAt
                                  ELSE importanceOrder(
                                           topicData.records[i].importance),
                          index |-> i,
                          record |-> topicData.records[i]]]
             records == SortDesc(keyed)
             displayRecords == slice(records, limit)
         IN /\ store' = [store EXCEPT
                           ![StoreIndex(store, topic)].records =
                               [i \in DOMAIN records |-> records[i].record]]
            /\ UNCHANGED <<memoryStats, clock>>
            /\ last' = QueryResult("view_topic", "ok") @@
                       [topic |-> topic, sortBy |-> sortBy, limit |-> limit,
                        description |-> topicData.description,
                        tags |-> topicData.tags,
                        createdAt |-> topicData.createdAt,
                        updatedAt |-> topicData.updatedAt,
                        total |-> Len(topicData.records),
                        displayRecords |-> displayRecords,
                        notShown |-> IF Len(topicData.records) > limit
                                     THEN Some(Len(topicData.records) - limit)
                                     ELSE Null]

ViewTopic(topic, sortBy, limit) ==
    /\ UNCHANGED <<store, memoryStats, clock>>
    /\ IF topic = ""
       THEN last' = QueryResult("view_topic", "ValidationError") @@ [topic |-> topic]
       ELSE IF ~StoreHas(store, topic)
       THEN last' = QueryResult("view_topic", "NotFound") @@ [topic |-> topic]
       ELSE LET topicData == StoreGet(store, topic)
                keyed == [i \in DOMAIN topicData.records |->
                            [key |-> IF sortBy = "time"
                                     THEN topicData.records[i].createdAt
                                     ELSE importanceOrder(
                                              topicData.records[i].importance),
                             index |-> i,
                             record |-> topicData.records[i]]]
                records == SortDesc(keyed)
                displayRecords == slice(records, limit)
            IN last' = QueryResult("view_topic", "ok") @@
                       [topic |-> topic, sortBy |-> sortBy, limit |-> limit,
                        description |-> topicData.description,
                        tags |-> topicData.tags,
                        createdAt |-> topicData.createdAt,
                        updatedAt |-> topicData.updatedAt,
                        total |-> Len(topicData.records),
                        displayRecords |-> displayRecords,
                        notShown |-> IF Len(topicData.records) > limit
                                     THEN Some(Len(topicData.records) - limit)
                                     ELSE Null]

\* the records of the store in the order of the two nested loops, each with
\* the name of its topic and its place in the topic (the object's identity)
RECURSIVE ScanOrder(_)
ScanOrder(s) ==
    IF s = <<>> THEN <<>>
    ELSE [i \in DOMAIN Head(s).records |->
             [topic |-> Head(s).name, index |-> i, record |-> Head(s).records[i]]]
         \o ScanOrder(Tail(s))

\* the query compared as it was typed
contentMatchAsTyped(record, query) ==
    includes(toLowerCase(record.content), query)

contentMatch(record, query) ==
    includes(toLowerCase(record.content), toLowerCase(query))

contextMatch(record, query) ==
    /\ record.context # Empty
    /\ includes(toLowerCase(record.context), toLowerCase(query))

metadataMatch(record, query) ==
    \E k \in DOMAIN record.metadata :
        includes(toLowerCase(String(record.metadata[k])), toLowerCase(query))

\* the context ranked above the content
relevanceContextFirst(record, query) ==
    IF contextMatch(record, query) THEN 3
    ELSE IF contentMatch(record, query) THEN 2 ELSE 1

relevance(record, query) ==
    IF contentMatch(record, query) THEN 3
    ELSE IF contextMatch(record, query) THEN 2 ELSE 1

\* the entries of the scan that pass the importance filter and match
matched(scan, query, importance) ==
    LET Pushed(e) ==
            /\ ~(importance # "all" /\ e.record.importance # importance)
            /\ \/ contentMatch(e.record, query)
               \/ contextMatch(e.record, query)
               \/ metadataMatch(e.record, query)
    IN SelectSeq(scan, Pushed)

\* results.push of each of them, with its relevance as the sort key
pushed(entries, query) ==
    [i \in DOMAIN entries |->
        [key |-> relevance(entries[i].record, query),
         topic |-> entries[i].topic,
         index |-> entries[i].index,
         record |-> entries[i].record]]

ranked(sorted) ==
    [i \in DOMAIN sorted |->
        [topic |-> sorted[i].topic, index |-> sorted[i].index,
         record |-> sorted[i].record, relevance |-> sorted[i].key]]

SearchResults(s, query, importance) ==
    ranked(SortDesc(pushed(matched(ScanOrder(s), query, importance), query)))

\* what search returns for the sorted results
SearchReturn(results, query, importance, limit) ==
    QueryResult("search", "ok") @@
    [query |-> query, importance |-> importance, limit |-> limit,
     results |-> results,
     found |-> Len(results),
     displayResults |-> slice(results, limit),
     notShown |-> IF Len(results) > limit
                  THEN Some(Len(results) - limit)
                  ELSE Null]

Search(query, importance, limit) ==
    /\ UNCHANGED <<store, memoryStats, clock>>
    /\ IF query = Empty
       THEN last' = QueryResult("search", "ValidationError") @@ [query |-> query]
       ELSE last' = SearchReturn(SearchResults(store, query, importance),
                                 query, importance, limit)

\* the last record with the id instead of the first
GetRecordLastHit(recordId) ==
    /\ UNCHANGED <<store, memoryStats, clock>>
    /\ IF recordId = Empty
       THEN last' = QueryResult("get_record", "ValidationError")
                    @@ [recordId |-> recordId]
       ELSE LET scan == ScanOrder(store)
                hit == {i \in DOMAIN scan : scan[i].record.id = recordId}
            IN IF hit = {}
               THEN last' = QueryResult("get_record", "NotFound")
                            @@ [recordId |-> recordId]
               ELSE LET final == CHOOSE i \in hit : \A j \in hit : i >= j
                    IN last' = QueryResult("get_record", "ok") @@
                               [recordId |-> recordId,
                                topic |-> scan[final].topic,
                                index |-> scan[final].index,
                                foundRecord |-> scan[final].record]

GetRecord(recordId) ==
    /\ UNCHANGED <<store, memoryStats, clock>>
    /\ IF recordId = Empty
       THEN last' = QueryResult("get_record", "ValidationError")
                    @@ [recordId |-> recordId]
       ELSE LET scan == ScanOrder(store)
                hit == {i \in DOMAIN scan : scan[i].record.id = recordId}
            IN IF hit = {}
               THEN last' = QueryResult("get_record", "NotFound")
                            @@ [recordId |-> recordId]
               ELSE LET first == CHOOSE i \in hit : \A j \in hit : i <= j
                    IN last' = QueryResult("get_record", "ok") @@
                               [recordId |-> recordId,
                                topic |-> scan[first].topic,
                                index |-> scan[first].index,
                                foundRecord |-> scan[first].record]

QueryDefault(action) ==
    /\ action \notin QueryActions
    /\ last' = QueryResult(action, "UnsupportedOperation")
    /\ UNCHANGED <<store, memoryStats, clock>>

----------------------------------------------------------------------------
(* memory_stats *)

\* the importance histogram, counted over every record of the store
importanceStats(s) ==
    LET scan == ScanOrder(s)
    IN [imp \in Importances |->
          Cardinality({i \in DOMAIN scan : scan[i].record.importance = imp})]

Stats ==
    /\ last' = [tool |-> "memory_stats", action |-> "stats", outcome |-> "ok",
                totalTopics |-> memoryStats.totalTopics,
                totalRecords |-> memoryStats.totalRecords,
                totalMemorySize |-> memoryStats.totalMemorySize,
                lastAccessTime |-> memoryStats.lastAccessTime,
                accessCount |-> memoryStats.accessCount,
                averageRecordSize |->
                    IF memoryStats.totalRecords > 0
                    THEN Some(<<memoryStats.totalMemorySize,
                                memoryStats.totalRecords>>)
                    ELSE Null,
                importanceStats |-> importanceStats(store),
                perTopic |->
                    IF memoryStats.totalRecords > 0
                    THEN Some(<<memoryStats.totalRecords,
                                memoryStats.totalTopics>>)
                    ELSE Null]
    /\ UNCHANGED <<store, memoryStats, clock>>

----------------------------------------------------------------------------
(* The tool calls of the model *)

\* A domain d names the finite sets a specification draws the arguments of the
\* tool calls from, and how far the wall clock may run (maxClock) and whether
\* the readings one call takes may differ (oneMs: the call ends within the
\* millisecond it began in).
ReadingsIn(n, d) ==
    IF d.oneMs
    THEN {[i \in 1..n |-> t] : t \in clock..d.maxClock}
    ELSE Readings(n, d.maxClock)

RecordIdsIn(d) ==
    {Empty} \cup {generateId(t, rnd) : t \in 0..d.maxClock, rnd \in d.suffixes}

\* The server counts its calls without bound (accessCount); a domain caps the
\* count at d.maxAccess.
Capped(d) == memoryStats'.accessCount <= d.maxAccess

Manage(d) ==
    \/ \E topic \in d.topics, description \in d.descriptions, tags \in d.tags,
          rnd \in d.suffixes, r \in ReadingsIn(4, d) :
          CreateTopic(topic, description, tags, rnd, r) /\ Capped(d)
    \/ \E topic \in d.topics, content \in d.contents,
          importance \in d.importances, context \in d.contexts,
          metadata \in d.metadatas, rnd \in d.suffixes, r \in ReadingsIn(5, d) :
          CreateRecord(topic, content, importance, context, metadata, rnd, r)
            /\ Capped(d)
    \/ \E topic \in d.topics, description \in d.descriptions, tags \in d.tags,
          r \in ReadingsIn(1, d) :
          UpdateTopic(topic, description, tags, r)
    \/ \E topic \in d.topics, recordId \in RecordIdsIn(d),
          content \in d.newContents,
          importance \in d.importances, context \in d.contexts,
          metadata \in d.metadatas, r \in ReadingsIn(2, d) :
          UpdateRecord(topic, recordId, content, importance, context, metadata, r)
    \/ \E topic \in d.topics, confirm \in BOOLEAN, r \in ReadingsIn(1, d) :
          DeleteTopic(topic, confirm, r) /\ Capped(d)
    \/ \E topic \in d.topics, recordId \in RecordIdsIn(d), r \in ReadingsIn(2, d) :
          DeleteRecord(topic, recordId, r) /\ Capped(d)
    \/ \E topic \in d.topics : ManageDefault("rename_topic", topic)

Query(d) ==
    \/ ListTopics
    \/ \E topic \in d.topics \cup {""}, sortBy \in d.sortKeys, limit \in d.limits :
          ViewTopic(topic, sortBy, limit)
    \/ \E query \in d.queries, importance \in d.filters, limit \in d.limits :
          Search(query, importance, limit)
    \/ \E recordId \in RecordIdsIn(d) : GetRecord(recordId)
    \/ QueryDefault("count_topics")

\* Spec: the whole server, with calls that end within the millisecond they
\* began in, over two milliseconds; SpecTime lets the clock run to MaxClock
\* and the readings of one call differ
StoreDomain ==
    [topics |-> TopicNames,
     descriptions |-> {<<"d">>},
     tags |-> {<<>>},
     contents |-> {Empty, <<"a">>}, newContents |-> {<<"a">>},
     importances |-> {"medium", "high"},
     contexts |-> {Empty},
     metadatas |-> {EmptyMeta},
     suffixes |-> {<<"x">>},
     maxClock |-> 1,
     maxAccess |-> MaxAccess,
     oneMs |-> TRUE,
     sortKeys |-> {"importance"},
     queries |-> {Empty, <<"A">>},
     filters |-> {"all"},
     limits |-> {1}]

Next == Manage(StoreDomain) \/ Query(StoreDomain) \/ Stats

Spec == Init /\ [][Next]_vars

----------------------------------------------------------------------------
(* SpecSearch: search applied to the stores that create_topic and          *)
(* create_record calls, all made within millisecond 0, can build out of    *)
(* at most MaxStored records.                                              *)

SearchContents == {<<"x", "A", "b">>, <<"b", "a">>}
SearchContexts == {Empty, <<"A", "B">>}
SearchMetadatas ==
    {EmptyMeta, ("k" :> NumVal(7)) @@ ("m" :> StrVal(<<"A", "b">>))}
SearchImportances == {"low", "high"}
SearchQueries == {Empty, <<"a", "B">>, <<"7">>}
SearchFilters == {"all", "high"}
SearchLimits == {1, 20}

RecordInputs ==
    [content : SearchContents, importance : SearchImportances,
     context : SearchContexts, metadata : SearchMetadatas]

\* the record create_record stores for the input inp as the j-th record of
\* the i-th topic; the random part of its id differs from record to record
CreatedRecord(inp, i, j) ==
    [id |-> generateId(0, <<Digits36[i + 1], Digits36[j + 1]>>),
     content |-> inp.content, importance |-> inp.importance,
     context |-> inp.context, metadata |-> inp.metadata,
     createdAt |-> 0, updatedAt |-> 0]

CreatedTopic(name, i, inputs) ==
    [id |-> generateId(0, <<Digits36[i + 1]>>), name |-> name,
     description |-> Empty, tags |-> <<>>,
     records |-> [j \in DOMAIN inputs |-> CreatedRecord(inputs[j], i, j)],
     createdAt |-> 0, updatedAt |-> 0]

InputSeqs(n) == [1..n -> RecordInputs]

\* the stores those calls can build. search treats a topic name as an opaque
\* key, so the topics are named in the order of their creation: a store with
\* the names exchanged is the same store up to renaming.
CreatedNames == <<"t1", "t2">>

CreatedStore(s) ==
    \/ s = <<>>
    \/ \E n \in 0..MaxStored :
         \E inputs \in InputSeqs(n) :
            s = <<CreatedTopic(CreatedNames[1], 1, inputs)>>
    \/ \E n \in {m \in (0..MaxStored) \X (0..MaxStored) : m[1] + m[2] <= MaxStored} :
         \E in1 \in InputSeqs(n[1]), in2 \in InputSeqs(n[2]) :
            s = <<CreatedTopic(CreatedNames[1], 1, in1),
                  CreatedTopic(CreatedNames[2], 2, in2)>>

\* the counters after the calls that built the store s
CreatedStats(s) ==
    LET scan == ScanOrder(s)
    IN [totalTopics |-> Len(s),
        totalRecords |-> Len(scan),
        totalMemorySize |->
            SumOver([i \in DOMAIN scan |-> calculateRecordSize(scan[i].record)],
                    DOMAIN scan),
        lastAccessTime |-> IF Len(s) = 0 THEN Null ELSE Some(0),
        accessCount |-> Len(s) + Len(scan)]

InitSearch ==
    /\ CreatedStore(store)
    /\ memoryStats = CreatedStats(store)
    /\ clock = 0
    /\ last = [tool |-> "none", action |-> "none", outcome |-> "none"]

NextSearch ==
    \E query \in SearchQueries, importance \in SearchFilters,
       limit \in SearchLimits :
        Search(query, importance, limit)

SpecSearch == InitSearch /\ [][NextSearch]_vars

----------------------------------------------------------------------------
(* SpecSingleFile: search as the single-file build of the server registers
   it, over the same stores. Its metadata test calls toLowerCase on the
   value itself, which only a string has. *)

\* the order in which the caller wrote the keys of a metadata object
KeyOrder == <<"m", "k">>

\* Object.values(metadata)
ObjectValues(metadata) ==
    LET Present(k) == k \in DOMAIN metadata
        keys == SelectSeq(KeyOrder, Present)
    IN [i \in DOMAIN keys |-> metadata[keys[i]]]

\* values.some(value => value.toLowerCase().includes(query.toLowerCase())):
\* "true", "false", or "throw" when it comes to a value that is no string
RECURSIVE someIncludes(_, _)
someIncludes(values, query) ==
    IF values = <<>> THEN "false"
    ELSE IF Head(values).type # "string" THEN "throw"
    ELSE IF includes(toLowerCase(Head(values).v), toLowerCase(query))
    THEN "true"
    ELSE someIncludes(Tail(values), query)

\* the scan comes to a record whose metadata test throws
searchThrows(scan, query, importance) ==
    \E i \in DOMAIN scan :
        /\ ~(importance # "all" /\ scan[i].record.importance # importance)
        /\ someIncludes(ObjectValues(scan[i].record.metadata), query) = "throw"

SearchSingleFile(query, importance, limit) ==
    /\ UNCHANGED <<store, memoryStats, clock>>
    /\ IF query = Empty
       THEN last' = QueryResult("search", "ValidationError") @@ [query |-> query]
       ELSE IF searchThrows(ScanOrder(store), query, importance)
       THEN last' = QueryResult("search", "InternalError") @@
                    [query |-> query, importance |-> importance]
       ELSE last' = SearchReturn(SearchResults(store, query, importance),
                                 query, importance, limit)

NextSingleFile ==
    \E query \in SearchQueries, importance \in SearchFilters,
       limit \in SearchLimits :
        SearchSingleFile(query, importance, limit)

SpecSingleFile == InitSearch /\ [][NextSingleFile]_vars

----------------------------------------------------------------------------
(* SpecIds: the calls that issue, hold, remove and look up record ids. The
   random part of an id is one of two suffixes, so that two calls can draw
   the same one or different ones. *)

IdDomain ==
    [topics |-> TopicNames,
     descriptions |-> {<<"d">>},
     tags |-> {<<>>},
     contents |-> {<<"a">>}, newContents |-> {<<"b">>},
     importances |-> {"medium"},
     contexts |-> {Empty},
     metadatas |-> {EmptyMeta},
     suffixes |-> {<<"x">>, <<"y">>},
     maxClock |-> 0,
     maxAccess |-> MaxIdCalls,
     oneMs |-> TRUE]

NextIds ==
    \/ Manage(IdDomain)
    \/ \E recordId \in RecordIdsIn(IdDomain) : GetRecord(recordId)

SpecIds == Init /\ [][NextIds]_vars

----------------------------------------------------------------------------
(* SpecTime: the calls that write the timestamps of a topic and its records,
   on a clock that may stand still or advance between any two readings, one
   call or two, and the two queries that show a topic. *)

TimeDomain ==
    [topics |-> {"t1"},
     descriptions |-> {Empty, <<"d">>},
     tags |-> {<<>>},
     contents |-> {<<"a">>}, newContents |-> {<<"b">>},
     importances |-> {"medium"},
     contexts |-> {Empty},
     metadatas |-> {EmptyMeta},
     suffixes |-> {<<"x">>},
     maxClock |-> MaxClock,
     maxAccess |-> MaxAccess,
     oneMs |-> FALSE]

NextTime ==
    \/ Manage(TimeDomain)
    \/ ListTopics
    \/ \E topic \in TimeDomain.topics : ViewTopic(topic, "time", 20)

SpecTime == Init /\ [][NextTime]_vars

----------------------------------------------------------------------------
(* SpecUpdate: update_topic and update_record with empty and non-empty
   arguments, on topics and records whose fields are empty or not. *)

UpdateDomain ==
    [topics |-> {"t1"},
     descriptions |-> {Empty, <<"d">>, <<"e">>},
     tags |-> {<<>>, <<"g">>},
     contents |-> {Empty, <<"a">>}, newContents |-> {Empty, <<"b">>},
     importances |-> {"medium"},
     contexts |-> {Empty, <<"c">>},
     metadatas |-> {EmptyMeta},
     suffixes |-> {<<"x">>},
     maxClock |-> 0,
     maxAccess |-> MaxAccess,
     oneMs |-> TRUE]

NextUpdate == Manage(UpdateDomain)

SpecUpdate == Init /\ [][NextUpdate]_vars

----------------------------------------------------------------------------
(* SpecFields: update_record with every importance and with metadata maps
   whose keys overlap, on records created with every importance and map. *)

MetaKM == ("k" :> StrVal(<<"1">>)) @@ ("m" :> StrVal(<<"2">>))
MetaKN == ("k" :> StrVal(<<"3">>)) @@ ("n" :> NumVal(4))

FieldDomain ==
    [topics |-> {"t1"},
     descriptions |-> {Empty},
     tags |-> {<<>>},
     contents |-> {<<"a">>}, newContents |-> {Empty},
     importances |-> Importances,
     contexts |-> {Empty},
     metadatas |-> {EmptyMeta, MetaKM, MetaKN},
     suffixes |-> {<<"x">>},
     maxClock |-> 0,
     maxAccess |-> MaxAccess,
     oneMs |-> TRUE]

NextFields == Manage(FieldDomain)

SpecFields == Init /\ [][NextFields]_vars

----------------------------------------------------------------------------
(* SpecLife: topics created, filled, deleted and created again under the same
   name, with every query in between. *)

LifeDomain ==
    [topics |-> TopicNames,
     descriptions |-> {<<"d">>},
     tags |-> {<<>>},
     contents |-> {<<"a">>}, newContents |-> {<<"a">>},
     importances |-> {"medium"},
     contexts |-> {Empty},
     metadatas |-> {EmptyMeta},
     suffixes |-> {<<"x">>},
     maxClock |-> 1,
     maxAccess |-> MaxIdCalls,
     oneMs |-> TRUE,
     sortKeys |-> {"time"},
     queries |-> {<<"a">>},
     filters |-> {"all"},
     limits |-> {20}]

NextLife == Manage(LifeDomain) \/ Query(LifeDomain)

SpecLife == Init /\ [][NextLife]_vars

----------------------------------------------------------------------------
(* SpecSteps: the branches of memory_manage statement by statement. A call in
   flight is a record of its arguments, the objects it holds, the state it
   began in and the number of writes it has made. JavaScript runs a handler
   until it returns or awaits, and only then starts or resumes another one; a
   query reads and returns in one step. All readings of the clock are those
   of one millisecond. *)

\* the writes of each branch to the store and to the statistics, in the order
\* of the statements
HandlerWrites(action) ==
    CASE action = "create_topic" -> <<"set", "updateStats">>
      [] action = "create_record" ->
            <<"push", "topic.updatedAt", "updateStats">>
      [] action = "update_topic" ->
            <<"description", "tags", "topic.updatedAt">>
      [] action = "update_record" ->
            <<"content", "importance", "context", "metadata",
              "record.updatedAt", "topic.updatedAt">>
      [] action = "delete_topic" -> <<"delete", "updateStats">>
      [] action = "delete_record" ->
            <<"splice", "topic.updatedAt", "updateStats">>

\* a handler that awaits after its first write
AwaitsAfterFirstWrite(action) == {1}

\* the writes after which the branch awaits: the handlers are async functions
\* without an await
AwaitsAfter(action) == {}

StatsEvent(action) ==
    CASE action = "create_topic" -> "add_topic"
      [] action = "create_record" -> "add_record"
      [] action = "delete_topic" -> "remove_topic"
      [] action = "delete_record" -> "remove_record"
      [] OTHER -> "none"

StepCalls ==
    [action : ManageActions, topic : {"t1"},
     recordId : {generateId(0, <<"x">>)},
     description : {<<"d">>}, tags : {<<"g">>},
     content : {<<"a">>}, importance : {"medium", "high"},
     context : {<<"c">>}, metadata : {EmptyMeta}, confirm : {FALSE, TRUE}]

\* the outcome of the tests a branch makes before its first write, "none" when
\* it goes on to write
Refusal(c, s) ==
    CASE c.action = "create_topic" ->
            IF StoreHas(s, c.topic) THEN "AlreadyExists" ELSE "none"
      [] c.action = "create_record" ->
            IF c.content = Empty THEN "ValidationError"
            ELSE IF ~StoreHas(s, c.topic) THEN "NotFound" ELSE "none"
      [] c.action = "update_topic" ->
            IF ~StoreHas(s, c.topic) THEN "NotFound" ELSE "none"
      [] c.action = "delete_topic" ->
            IF ~StoreHas(s, c.topic) THEN "NotFound"
            ELSE IF ~c.confirm THEN "ConfirmationRequired" ELSE "none"
      [] c.action \in {"update_record", "delete_record"} ->
            IF c.recordId = Empty THEN "ValidationError"
            ELSE IF ~StoreHas(s, c.topic) THEN "NotFound"
            ELSE IF findIndex(StoreGet(s, c.topic).records, c.recordId) = 0
            THEN "NotFound" ELSE "none"

\* newTopic, newRecord: the object a creating branch builds before it writes
Built(c) ==
    CASE c.action = "create_topic" ->
            Some([id |-> generateId(clock, <<"x">>), name |-> c.topic,
                  description |-> c.description, tags |-> c.tags,
                  records |-> <<>>, createdAt |-> clock, updatedAt |-> clock])
      [] c.action = "create_record" ->
            Some([id |-> generateId(clock, <<"x">>), content |-> c.content,
                  importance |-> c.importance, context |-> c.context,
                  metadata |-> c.metadata, createdAt |-> clock,
                  updatedAt |-> clock])
      [] OTHER -> Null

\* recordToUpdate, recordIndex: the place of the record the branch found
Found(c, s) ==
    IF c.action \in {"update_record", "delete_record"}
    THEN findIndex(StoreGet(s, c.topic).records, c.recordId)
    ELSE 0

\* the store after the write w of the call in flight f
WriteStore(w, f, s) ==
    LET c == f.call
    IN IF w = "set" THEN Append(s, f.held[1])
       ELSE IF w = "updateStats" \/ ~StoreHas(s, c.topic) THEN s
       ELSE LET ti == StoreIndex(s, c.topic)
                ri == f.index
            IN CASE w = "delete" -> StoreDelete(s, c.topic)
                 [] w = "push" -> [s EXCEPT ![ti].records = Append(@, f.held[1])]
                 [] w = "topic.updatedAt" -> [s EXCEPT ![ti].updatedAt = clock]
                 [] w = "description" ->
                       IF c.description # Empty
                       THEN [s EXCEPT ![ti].description = c.description] ELSE s
                 [] w = "tags" ->
                       IF c.tags # <<>> THEN [s EXCEPT ![ti].tags = c.tags] ELSE s
                 [] OTHER ->
                       IF ri \notin DOMAIN s[ti].records THEN s
                       ELSE CASE w = "splice" ->
                                   [s EXCEPT ![ti].records = splice(@, ri)]
                              [] w = "content" ->
                                   IF c.content # Empty
                                   THEN [s EXCEPT ![ti].records[ri].content = c.content]
                                   ELSE s
                              [] w = "importance" ->
                                   IF c.importance # "medium"
                                   THEN [s EXCEPT ![ti].records[ri].importance =
                                                      c.importance]
                                   ELSE s
                              [] w = "context" ->
                                   IF c.context # Empty
                                   THEN [s EXCEPT ![ti].records[ri].context = c.context]
                                   ELSE s
                              [] w = "metadata" ->
                                   IF DOMAIN c.metadata # {}
                                   THEN [s EXCEPT ![ti].records[ri].metadata =
                                                      Merge(@, c.metadata)]
                                   ELSE s
                              [] w = "record.updatedAt" ->
                                   [s EXCEPT ![ti].records[ri].updatedAt = clock]

\* removedRecord: what the splice of the call in flight returns
Spliced(f, s) ==
    IF StoreHas(s, f.call.topic)
         /\ f.index \in DOMAIN StoreGet(s, f.call.topic).records
    THEN Some(StoreGet(s, f.call.topic).records[f.index])
    ELSE Null

\* the statistics after the write w of the call in flight f
WriteStats(w, f, st) ==
    IF w = "updateStats"
    THEN updateStats(st, StatsEvent(f.call.action),
                     IF f.call.action \in {"create_record", "delete_record"}
                     THEN f.held ELSE Null,
                     clock)
    ELSE st

\* the call in flight has stopped at an await
Suspended(f) == f.pc \in AwaitsAfter(f.call.action)

\* no handler is running: a call can begin
Idle == \A i \in DOMAIN last.inflight : Suspended(last.inflight[i])

InitSteps ==
    /\ store = <<>>
    /\ memoryStats = InitStats
    /\ clock = 0
    /\ last = [tool |-> "none", action |-> "none", outcome |-> "none",
               inflight |-> <<>>]

\* a call of memory_manage is taken up: its tests, and the objects it builds
BeginManage(c) ==
    /\ Idle
    /\ StatsEvent(c.action) # "none" =>
          memoryStats.accessCount + Len(last.inflight) < MaxAccess
    /\ UNCHANGED <<store, memoryStats, clock>>
    /\ IF Refusal(c, store) # "none"
       THEN last' = ManageResult(c.action, Refusal(c, store), c.topic, c.recordId)
                    @@ [inflight |-> last.inflight]
       ELSE last' = ManageResult(c.action, "begun", c.topic, c.recordId)
                    @@ [inflight |->
                          Append(last.inflight,
                                 [call |-> c, pc |-> 0, held |-> Built(c),
                                  index |-> Found(c, store),
                                  before |-> [store |-> store,
                                              memoryStats |-> memoryStats]])]

\* the running handler, or a suspended one while none runs, makes its next
\* write
StepManage(i) ==
    /\ i \in DOMAIN last.inflight
    /\ \A j \in DOMAIN last.inflight : j # i => Suspended(last.inflight[j])
    /\ LET f == last.inflight[i]
           writes == HandlerWrites(f.call.action)
       IN /\ f.pc < Len(writes)
          /\ store' = WriteStore(writes[f.pc + 1], f, store)
          /\ memoryStats' = WriteStats(writes[f.pc + 1], f, memoryStats)
          /\ last' = ManageResult(f.call.action, "running", f.call.topic,
                                  f.call.recordId)
                     @@ [inflight |->
                           [last.inflight EXCEPT
                              ![i].pc = @ + 1,
                              ![i].held = IF writes[f.pc + 1] = "splice"
                                          THEN Spliced(f, store) ELSE @]]
    /\ UNCHANGED clock

\* the handler returns after its last write
ReturnManage(i) ==
    /\ i \in DOMAIN last.inflight
    /\ \A j \in DOMAIN last.inflight : j # i => Suspended(last.inflight[j])
    /\ LET f == last.inflight[i]
       IN /\ f.pc = Len(HandlerWrites(f.call.action))
          /\ last' = ManageResult(f.call.action, "ok", f.call.topic,
                                  f.call.recordId)
                     @@ [before |-> f.before,
                         inflight |-> SubSeq(last.inflight, 1, i - 1)
                                      \o SubSeq(last.inflight, i + 1,
                                                Len(last.inflight))]
    /\ UNCHANGED <<store, memoryStats, clock>>

\* list_topics and stats, taken up like any call
BeginListTopics ==
    /\ Idle
    /\ last' = QueryResult("list_topics", "ok") @@
               [size |-> Len(store),
                topics |-> [i \in DOMAIN store |-> TopicSummary(store[i])],
                inflight |-> last.inflight]
    /\ UNCHANGED <<store, memoryStats, clock>>

BeginStats ==
    /\ Idle
    /\ last' = [tool |-> "memory_stats", action |-> "stats", outcome |-> "ok",
                totalTopics |-> memoryStats.totalTopics,
                totalRecords |-> memoryStats.totalRecords,
                totalMemorySize |-> memoryStats.totalMemorySize,
                lastAccessTime |-> memoryStats.lastAccessTime,
                accessCount |-> memoryStats.accessCount,
                importanceStats |-> importanceStats(store),
                inflight |-> last.inflight]
    /\ UNCHANGED <<store, memoryStats, clock>>

NextSteps ==
    \/ \E c \in StepCalls : BeginManage(c)
    \/ \E i \in 1..MaxAccess : StepManage(i)
    \/ \E i \in 1..MaxAccess : ReturnManage(i)
    \/ BeginListTopics
    \/ BeginStats

SpecSteps == InitSteps /\ [][NextSteps]_vars

----------------------------------------------------------------------------
(* SpecView: view_topic over the topics create_topic and create_record can
   build, every order of importances and every run of creation times. *)

ViewSortKeys == {"time", "importance"}
ViewLimits == {1, 2, MaxViewed, 100}

\* the record the j-th create_record on a topic stores at the reading t
ViewedRecord(importance, j, t) ==
    [id |-> generateId(t, <<Digits36[j + 1]>>),
     content |-> <<"a">>, importance |-> importance,
     context |-> Empty, metadata |-> EmptyMeta,
     createdAt |-> t, updatedAt |-> t]

\* the readings of n successive calls: the clock never runs backwards
CreationTimes(n) ==
    {r \in [1..n -> 0..MaxClock] : \A i \in 1..(n - 1) : r[i] <= r[i + 1]}

ViewedTopic(name, importances, times) ==
    [id |-> generateId(0, <<"v">>), name |-> name,
     description |-> <<"d">>, tags |-> <<>>,
     records |-> [j \in DOMAIN importances |->
                     ViewedRecord(importances[j], j, times[j])],
     createdAt |-> 0,
     updatedAt |-> IF Len(times) = 0 THEN 0 ELSE times[Len(times)]]

\* another topic, created first, that holds a record of its own
OtherTopic ==
    [id |-> generateId(0, <<"o">>), name |-> "t2",
     description |-> Empty, tags |-> <<>>,
     records |-> <<ViewedRecord("high", 0, 0)>>,
     createdAt |-> 0, updatedAt |-> 0]

ViewedStore(s) ==
    \E n \in 0..MaxViewed :
        \E importances \in [1..n -> Importances], times \in CreationTimes(n) :
            \/ s = <<ViewedTopic("t1", importances, times)>>
            \/ s = <<OtherTopic, ViewedTopic("t1", importances, times)>>

ViewedStats(s) ==
    LET scan == ScanOrder(s)
        newest == s[Len(s)].updatedAt
    IN [totalTopics |-> Len(s),
        totalRecords |-> Len(scan),
        totalMemorySize |->
            SumOver([i \in DOMAIN scan |-> calculateRecordSize(scan[i].record)],
                    DOMAIN scan),
        lastAccessTime |-> Some(newest),
        accessCount |-> Len(s) + Len(scan)]

InitView ==
    /\ ViewedStore(store)
    /\ memoryStats = ViewedStats(store)
    /\ clock = store[Len(store)].updatedAt
    /\ last = [tool |-> "none", action |-> "none", outcome |-> "none"]

NextView ==
    \E topic \in TopicNames \cup {""}, sortBy \in ViewSortKeys,
       limit \in ViewLimits :
        ViewTopic(topic, sortBy, limit)

SpecView == InitView /\ [][NextView]_vars

----------------------------------------------------------------------------
(* Properties *)

Managed(l, action, outcome) ==
    l.tool = "memory_manage" /\ l.action = action /\ l.outcome = outcome

Queried(l, action, outcome) ==
    l.tool = "memory_query" /\ l.action = action /\ l.outcome = outcome

Holds(s, topic) == \E i \in DOMAIN s : s[i].name = topic

Topic(s, topic) == s[CHOOSE i \in DOMAIN s : s[i].name = topic]

RecordsOf(s, topic) == Topic(s, topic).records

RECURSIVE RecordCount(_)
RecordCount(s) ==
    IF s = <<>> THEN 0 ELSE Len(Head(s).records) + RecordCount(Tail(s))

\* C1: a successful delete_topic(name, confirm = true) on a topic that holds n
\* records leaves the topic absent, lowers totalTopics by exactly 1 and lowers
\* totalRecords by exactly n.
C1_DeleteTopicLowersCounters ==
    [][Managed(last', "delete_topic", "ok") =>
          /\ ~Holds(store', last'.topic)
          /\ memoryStats'.totalTopics = memoryStats.totalTopics - 1
          /\ memoryStats'.totalRecords =
                 memoryStats.totalRecords - Len(RecordsOf(store, last'.topic))]_vars

\* C2: delete_topic answers NotFound for an absent topic whatever confirm is,
\* and ConfirmationRequired for a stored topic when confirm is false; in both
\* cases the store and the five counters are what they were.
C2_UnconfirmedDeleteKeepsAll ==
    [][(last'.tool = "memory_manage" /\ last'.action = "delete_topic") =>
          /\ ~Holds(store, last'.topic) => last'.outcome = "NotFound"
          /\ (Holds(store, last'.topic) /\ ~last'.confirm) =>
                 last'.outcome = "ConfirmationRequired"
          /\ (~last'.confirm \/ ~Holds(store, last'.topic)) =>
                 (store' = store /\ memoryStats' = memoryStats)]_vars

C2_Witness ==
    /\ Managed(last, "delete_topic", "ConfirmationRequired")
    /\ Len(RecordsOf(store, last.topic)) > 0
    /\ clock > Topic(store, last.topic).updatedAt

\* C3: create_topic with a name the store already holds answers AlreadyExists
\* and changes nothing: one topic of that name, the same as before, and the
\* same counters.
C3_DuplicateCreateKeepsAll ==
    [][(last'.tool = "memory_manage" /\ last'.action = "create_topic"
          /\ Holds(store, last'.topic)) =>
          /\ last'.outcome = "AlreadyExists"
          /\ store' = store
          /\ memoryStats' = memoryStats
          /\ Cardinality({i \in DOMAIN store' : store'[i].name = last'.topic}) = 1]_vars

C3_Witness ==
    /\ Managed(last, "create_topic", "AlreadyExists")
    /\ Len(RecordsOf(store, last.topic)) > 0
    /\ Len(store) = 1

\* C4: the number of records of a topic, which list_topics and view_topic
\* report, is the number of successful create_record calls on it minus the
\* number of successful delete_record calls on it since the topic was created:
\* it is 0 when the topic is created, one more after each successful
\* create_record, one less after each successful delete_record, and no other
\* call changes it.
C4_CountIsCreatesMinusDeletes ==
    [][/\ \A t \in TopicNames :
            IF Managed(last', "create_topic", "ok") /\ last'.topic = t
            THEN Len(RecordsOf(store', t)) = 0
            ELSE IF Managed(last', "create_record", "ok") /\ last'.topic = t
            THEN Len(RecordsOf(store', t)) = Len(RecordsOf(store, t)) + 1
            ELSE IF Managed(last', "delete_record", "ok") /\ last'.topic = t
            THEN Len(RecordsOf(store', t)) = Len(RecordsOf(store, t)) - 1
            ELSE (Holds(store, t) /\ Holds(store', t)) =>
                     Len(RecordsOf(store', t)) = Len(RecordsOf(store, t))
       /\ Queried(last', "list_topics", "ok") =>
             \A i \in DOMAIN store' :
                 last'.topics[i].count = Len(store'[i].records)
       /\ Queried(last', "view_topic", "ok") =>
             last'.total = Len(RecordsOf(store', last'.topic))]_vars

C4_Witness ==
    /\ Managed(last, "delete_record", "ok")
    /\ Holds(store, last.topic)
    /\ Len(RecordsOf(store, last.topic)) = 0

\* C5: totalRecords is the number of records the topics of the store hold,
\* which is also the sum of the three buckets of the histogram of stats.
C5_TotalRecordsIsStored ==
    /\ memoryStats.totalRecords = RecordCount(store)
    /\ importanceStats(store)["high"] + importanceStats(store)["medium"]
         + importanceStats(store)["low"] = RecordCount(store)
    /\ last.tool = "memory_stats" =>
          last.importanceStats["high"] + last.importanceStats["medium"]
            + last.importanceStats["low"] = last.totalRecords

\* C6: totalTopics is the number of topics of the store, which is the number
\* of summaries list_topics returns, and is never negative.
C6_TotalTopicsIsStored ==
    /\ memoryStats.totalTopics = Len(store)
    /\ memoryStats.totalTopics >= 0
    /\ Queried(last, "list_topics", "ok") =>
          (Len(last.topics) = memoryStats.totalTopics
             /\ last.size = memoryStats.totalTopics)

C6_Witness ==
    /\ Managed(last, "delete_topic", "ok")
    /\ Len(store) = 1
    /\ memoryStats.accessCount = 3

\* C7: a call that ends in an error outcome leaves the store and the five
\* counters as they were.
ErrorOutcomes ==
    {"ValidationError", "NotFound", "AlreadyExists", "ConfirmationRequired",
     "UnsupportedOperation"}

----------------------------------------------------------------------------
(* Properties of search *)

CasePairs ==
    {<<"A", "a">>, <<"B", "b">>, <<"C", "c">>, <<"M", "m">>, <<"X", "x">>}

SameLetter(a, b) ==
    a = b \/ <<a, b>> \in CasePairs \/ <<b, a>> \in CasePairs

\* text contains q as a substring, letter case ignored
Contains(text, q) ==
    \E k \in 0..(Len(text) - Len(q)) :
        \A i \in 1..Len(q) : SameLetter(text[k + i], q[i])

ValueText(value) ==
    IF value.type = "string" THEN value.v ELSE DecimalText(value.v)

InContent(rec, q) == Contains(rec.content, q)
InContext(rec, q) == Contains(rec.context, q)
InMetadata(rec, q) ==
    \E k \in DOMAIN rec.metadata : Contains(ValueText(rec.metadata[k]), q)

\* the records search has to find, each named by the place of its topic in
\* the store and its place in the topic
Wanted(s, q, filter) ==
    {p \in UNION {{<<ti, ri>> : ri \in DOMAIN s[ti].records} : ti \in DOMAIN s} :
        LET rec == s[p[1]].records[p[2]]
        IN /\ filter = "all" \/ rec.importance = filter
           /\ InContent(rec, q) \/ InContext(rec, q) \/ InMetadata(rec, q)}

\* the place in the store of the record a result refers to
PlaceOf(s, result) ==
    <<CHOOSE ti \in DOMAIN s : s[ti].name = result.topic, result.index>>

Places(s, results) == {PlaceOf(s, results[i]) : i \in DOMAIN results}

ScanBefore(p, q) == p[1] < q[1] \/ (p[1] = q[1] /\ p[2] < q[2])

Min(a, b) == IF a < b THEN a ELSE b

\* C8: for a non-empty query the records search finds, and the number it
\* reports as found, are exactly the records of all topics that pass the
\* importance filter and whose content, context or some metadata value contains
\* the query, letter case ignored.
C8_SearchFindsTheMatches ==
    Queried(last, "search", "ok") =>
        /\ Places(store, last.results) = Wanted(store, last.query, last.importance)
        /\ last.found = Cardinality(Wanted(store, last.query, last.importance))
        /\ \A i \in DOMAIN last.results :
              last.results[i].record =
                  store[PlaceOf(store, last.results[i])[1]]
                      .records[last.results[i].index]

C8_Witness ==
    /\ Queried(last, "search", "ok")
    /\ last.importance = "high"
    /\ last.found = 1
    /\ RecordCount(store) = 2
    /\ \E i \in DOMAIN last.results :
          /\ InContent(last.results[i].record, last.query)
          /\ ~includes(last.results[i].record.content, last.query)
    /\ \E ti \in DOMAIN store : \E ri \in DOMAIN store[ti].records :
          /\ store[ti].records[ri].importance = "low"
          /\ InContent(store[ti].records[ri], last.query)

\* C9: a result has relevance 3 if the content of its record matched, else 2
\* if its context matched, else 1, and then a metadata value matched; no record
\* is in the results twice.
C9_RelevanceByField ==
    Queried(last, "search", "ok") =>
        /\ \A i \in DOMAIN last.results :
              LET rec == last.results[i].record
                  rel == last.results[i].relevance
              IN /\ rel \in {1, 2, 3}
                 /\ rel = 3 <=> InContent(rec, last.query)
                 /\ rel = 2 <=> (~InContent(rec, last.query)
                                   /\ InContext(rec, last.query))
                 /\ rel = 1 => InMetadata(rec, last.query)
        /\ \A i, j \in DOMAIN last.results :
              i # j => PlaceOf(store, last.results[i])
                         # PlaceOf(store, last.results[j])

C9_Witness ==
    /\ Queried(last, "search", "ok")
    /\ \E i, j \in DOMAIN last.results :
          /\ last.results[i].relevance = 2
          /\ InMetadata(last.results[i].record, last.query)
          /\ last.results[j].relevance = 1

\* C10: the results are the found records in non-increasing order of
\* relevance, records of equal relevance in scan order (topics in insertion
\* order, then records in insertion order), and what search returns is their
\* first min(limit, found) elements.
C10_SortedStableTruncated ==
    Queried(last, "search", "ok") =>
        /\ Places(store, last.results) = Wanted(store, last.query, last.importance)
        /\ Len(last.results) = Cardinality(Wanted(store, last.query, last.importance))
        /\ \A i, j \in DOMAIN last.results :
              i < j =>
                 \/ last.results[i].relevance > last.results[j].relevance
                 \/ /\ last.results[i].relevance = last.results[j].relevance
                    /\ ScanBefore(PlaceOf(store, last.results[i]),
                                  PlaceOf(store, last.results[j]))
        /\ last.displayResults =
               SubSeq(last.results, 1, Min(last.limit, last.found))

C10_Witness ==
    /\ Queried(last, "search", "ok")
    /\ last.found = 2
    /\ last.limit = 1
    /\ Len(last.displayResults) = 1
    /\ ScanBefore(PlaceOf(store, last.results[2]), PlaceOf(store, last.results[1]))

\* C11: search with a non-empty query never ends in the internal failure,
\* whatever the metadata of the stored records holds: a value that is no
\* string is compared by its text, so the call answers ok and finds the
\* records whose content, context or metadata text contains the query.
C11_NonStringMetadataIsCompared ==
    (last.tool = "memory_query" /\ last.action = "search"
        /\ last.query # Empty) =>
        /\ last.outcome # "InternalError"
        /\ last.outcome = "ok"
        /\ Places(store, last.results)
             = Wanted(store, last.query, last.importance)

----------------------------------------------------------------------------
(* Properties of view_topic *)

\* importance a ranks above importance b
Outranks(a, b) ==
    \/ a = "high" /\ b \in {"medium", "low"}
    \/ a = "medium" /\ b = "low"

\* the places in the topic of the records view_topic shows
ShownPlaces(l) == {l.displayRecords[i].index : i \in DOMAIN l.displayRecords}

\* C12: view_topic sorted by importance shows every high record before every
\* medium one and every medium one before every low one, records of equal
\* importance in the order of their insertion; a record it leaves out comes
\* after every record it shows in that order.
C12_ImportanceOrderStable ==
    (Queried(last, "view_topic", "ok") /\ last.sortBy = "importance") =>
        LET recs == RecordsOf(store, last.topic)
            shown == last.displayRecords
        IN /\ \A i \in DOMAIN shown : shown[i].record = recs[shown[i].index]
           /\ \A i, j \in DOMAIN shown :
                 i < j =>
                    \/ Outranks(shown[i].record.importance,
                                shown[j].record.importance)
                    \/ /\ shown[i].record.importance = shown[j].record.importance
                       /\ shown[i].index < shown[j].index
           /\ \A r \in DOMAIN recs \ ShownPlaces(last) :
                 \A i \in DOMAIN shown :
                    \/ Outranks(shown[i].record.importance, recs[r].importance)
                    \/ /\ shown[i].record.importance = recs[r].importance
                       /\ shown[i].index < r

C12_Witness ==
    /\ Queried(last, "view_topic", "ok")
    /\ last.sortBy = "importance"
    /\ Len(last.displayRecords) = 3
    /\ last.displayRecords[1].record.importance = "high"
    /\ last.displayRecords[2].record.importance = "medium"
    /\ last.displayRecords[3].record.importance = "low"
    /\ last.displayRecords[1].index = 3
    /\ last.displayRecords[3].index = 1

\* C13 as claimed: view_topic sorted by time shows, of any two records it
\* shows, the one the later create_record call stored before the other,
\* also when both calls read the same millisecond.
C13_LaterCallFirst ==
    (Queried(last, "view_topic", "ok") /\ last.sortBy = "time") =>
        \A i, j \in DOMAIN last.displayRecords :
            last.displayRecords[i].index > last.displayRecords[j].index => i < j

\* C13 amended: view_topic sorted by time shows a record with a later
\* creation time before one with an earlier creation time, and records
\* created in the same millisecond in the order of their insertion (the
\* earlier call first); a record it leaves out comes after every record it
\* shows in that order.
C13_LaterTimeFirst ==
    (Queried(last, "view_topic", "ok") /\ last.sortBy = "time") =>
        LET recs == RecordsOf(store, last.topic)
            shown == last.displayRecords
        IN /\ \A i \in DOMAIN shown : shown[i].record = recs[shown[i].index]
           /\ \A i, j \in DOMAIN shown :
                 i < j =>
                    \/ shown[i].record.createdAt > shown[j].record.createdAt
                    \/ /\ shown[i].record.createdAt = shown[j].record.createdAt
                       /\ shown[i].index < shown[j].index
           /\ \A r \in DOMAIN recs \ ShownPlaces(last) :
                 \A i \in DOMAIN shown :
                    \/ shown[i].record.createdAt > recs[r].createdAt
                    \/ /\ shown[i].record.createdAt = recs[r].createdAt
                       /\ shown[i].index < r

C13_Witness ==
    /\ Queried(last, "view_topic", "ok")
    /\ last.sortBy = "time"
    /\ Len(last.displayRecords) = 3
    /\ last.displayRecords[1].index = 2
    /\ last.displayRecords[2].index = 3
    /\ last.displayRecords[3].index = 1
    /\ last.displayRecords[1].record.createdAt
         = last.displayRecords[2].record.createdAt

\* record a at place i comes before record b at place j in the order sortBy
Precedes(sortBy, a, i, b, j) ==
    IF sortBy = "time"
    THEN a.createdAt > b.createdAt \/ (a.createdAt = b.createdAt /\ i < j)
    ELSE \/ Outranks(a.importance, b.importance)
         \/ (a.importance = b.importance /\ i < j)

\* C14: for a topic of t records and a limit in 1..100, view_topic shows
\* exactly min(limit, t) records, which are the first min(limit, t) of the
\* sorted records, reports t as the total, and reports t - limit records as
\* not shown exactly when t > limit.
C14_ShowsFirstMinLimitTotal ==
    Queried(last, "view_topic", "ok") =>
        LET recs == RecordsOf(store, last.topic)
            shown == last.displayRecords
            t == Len(recs)
        IN /\ last.limit \in 1..100
           /\ Len(shown) = Min(last.limit, t)
           /\ Cardinality(ShownPlaces(last)) = Len(shown)
           /\ ShownPlaces(last) \subseteq DOMAIN recs
           /\ \A i, j \in DOMAIN shown :
                 i < j => Precedes(last.sortBy, shown[i].record, shown[i].index,
                                   shown[j].record, shown[j].index)
           /\ \A r \in DOMAIN recs \ ShownPlaces(last) :
                 \A i \in DOMAIN shown :
                    Precedes(last.sortBy, recs[shown[i].index], shown[i].index,
                             recs[r], r)
           /\ last.total = t
           /\ IF t > last.limit
              THEN last.notShown = Some(t - last.limit)
              ELSE last.notShown = Null

C14_Witness ==
    /\ Queried(last, "view_topic", "ok")
    /\ last.limit = 2
    /\ last.total = 3
    /\ Len(last.displayRecords) = 2
    /\ last.notShown = Some(1)
    /\ last.displayRecords[1].index = 3

----------------------------------------------------------------------------
(* Properties of record ids *)

\* the places of the store that hold a record with the id
PlacesOfId(s, id) ==
    {p \in UNION {{<<ti, ri>> : ri \in DOMAIN s[ti].records} : ti \in DOMAIN s} :
        s[p[1]].records[p[2]].id = id}

IdStored(s, id) == PlacesOfId(s, id) # {}

IdsOf(s) ==
    UNION {{s[ti].records[ri].id : ri \in DOMAIN s[ti].records} : ti \in DOMAIN s}

\* the ids the records of the topic hold
IdsIn(s, topic) ==
    IF Holds(s, topic)
    THEN {RecordsOf(s, topic)[ri].id : ri \in DOMAIN RecordsOf(s, topic)}
    ELSE {}

\* C15: get_record answers NotFound for every non-empty id that no
\* successful create_record has issued, and for every id whose record
\* delete_record or a confirmed delete_topic has removed: an id comes into the
\* store only by a create_record that issues it, the id of a removed record
\* is in the store no more, and get_record of an id that is not in the store
\* answers NotFound.
C15_UnissuedAndRemovedNotFound ==
    [][/\ \A id \in IdsOf(store') \ IdsOf(store) :
             Managed(last', "create_record", "ok") /\ last'.recordId = id
       /\ Managed(last', "delete_record", "ok") =>
             ~IdStored(store', last'.recordId)
       /\ Managed(last', "delete_topic", "ok") =>
             \A id \in IdsIn(store, last'.topic) : ~IdStored(store', id)
       /\ (last'.tool = "memory_query" /\ last'.action = "get_record"
             /\ last'.recordId # Empty
             /\ ~IdStored(store', last'.recordId)) =>
             last'.outcome = "NotFound"]_vars

\* C16: for an id that a stored record holds, get_record returns the first
\* record with that id in the order of the scan (topics in the order of their
\* insertion, records in the order of their insertion) and the name of its
\* topic, whichever topic holds it.
C16_FirstInScanOrder ==
    (last.tool = "memory_query" /\ last.action = "get_record"
        /\ IdStored(store, last.recordId)) =>
        /\ last.outcome = "ok"
        /\ LET here == PlaceOf(store, last)
           IN /\ here \in PlacesOfId(store, last.recordId)
              /\ \A p \in PlacesOfId(store, last.recordId) \ {here} :
                    ScanBefore(here, p)
              /\ last.foundRecord = store[here[1]].records[here[2]]
              /\ last.topic = store[here[1]].name

C16_Witness ==
    /\ Queried(last, "get_record", "ok")
    /\ Len(store) = 2
    /\ last.recordId \in IdsIn(store, store[1].name)
    /\ last.recordId \in IdsIn(store, store[2].name)
    /\ last.topic = store[1].name

\* C17: in every reachable state no two stored records, of one topic or of
\* two, hold the same id, and no call moves a record to another topic: an id
\* a topic holds comes to be held by another topic only when a create_record
\* on that topic issues it.
C17_IdsUniqueNeverMoved ==
    [][/\ \A id \in IdsOf(store') : Cardinality(PlacesOfId(store', id)) = 1
       /\ \A a, b \in TopicNames :
             \A id \in IdsIn(store, a) :
                (a # b /\ id \notin IdsIn(store, b) /\ id \in IdsIn(store', b)) =>
                    (Managed(last', "create_record", "ok")
                       /\ last'.topic = b /\ last'.recordId = id)]_vars

----------------------------------------------------------------------------
(* Properties of the timestamps and of the updates *)

\* list_topics and view_topic show the description and the two timestamps
\* the store holds
ShowsStored(s, l) ==
    /\ Queried(l, "list_topics", "ok") =>
          \A i \in DOMAIN s :
             /\ l.topics[i].description = s[i].description
             /\ l.topics[i].createdAt = s[i].createdAt
             /\ l.topics[i].updatedAt = s[i].updatedAt
    /\ Queried(l, "view_topic", "ok") =>
          /\ l.description = Topic(s, l.topic).description
          /\ l.createdAt = Topic(s, l.topic).createdAt
          /\ l.updatedAt = Topic(s, l.topic).updatedAt

\* C18 as claimed: after a successful update_topic(T, description = D) with a
\* non-empty D the topic holds D, which list_topics and view_topic show, and
\* its updatedAt is strictly later than its createdAt, whatever the clock
\* read in the two calls.
C18_UpdatedStrictlyLater ==
    [][/\ (Managed(last', "update_topic", "ok") /\ last'.description # Empty) =>
             /\ Topic(store', last'.topic).description = last'.description
             /\ Topic(store', last'.topic).updatedAt
                  > Topic(store', last'.topic).createdAt
       /\ ShowsStored(store', last')]_vars

\* C18 amended: after a successful update_topic(T, description = D) with a
\* non-empty D the topic holds D, which list_topics and view_topic show, and
\* its updatedAt is the reading of the update: not earlier than its
\* createdAt, and strictly later exactly when the clock has advanced since
\* createdAt was read.
C18_UpdatedNotEarlier ==
    [][/\ (Managed(last', "update_topic", "ok") /\ last'.description # Empty) =>
             LET t == Topic(store', last'.topic)
             IN /\ t.description = last'.description
                /\ t.updatedAt = clock'
                /\ t.updatedAt >= t.createdAt
                /\ t.updatedAt > t.createdAt <=> clock' > t.createdAt
                /\ t.createdAt = Topic(store, last'.topic).createdAt
       /\ ShowsStored(store', last')]_vars

C18_Witness ==
    /\ Queried(last, "view_topic", "ok")
    /\ last.description = <<"d">>
    /\ last.updatedAt > last.createdAt
    /\ last.total = 0
    /\ memoryStats.accessCount = 1
    /\ clock > memoryStats.lastAccessTime[1]

\* C19: on a clock that never runs backwards the updatedAt of a topic never
\* decreases while the topic is stored, and every successful create_record,
\* update_record, delete_record and update_topic on the topic sets it to a
\* reading taken during the call: one not earlier than the last reading
\* before the call and not later than the last reading of the call, which is
\* the reading itself in update_record and update_topic.
C19_TopicTimeFollowsClock ==
    [][/\ \A t \in TopicNames :
             (Holds(store, t) /\ Holds(store', t)) =>
                 Topic(store', t).updatedAt >= Topic(store, t).updatedAt
       /\ (last'.tool = "memory_manage" /\ last'.outcome = "ok"
             /\ last'.action \in {"create_record", "update_record",
                                  "delete_record", "update_topic"}) =>
             /\ clock <= Topic(store', last'.topic).updatedAt
             /\ Topic(store', last'.topic).updatedAt <= clock'
             /\ last'.action \in {"update_record", "update_topic"} =>
                   Topic(store', last'.topic).updatedAt = clock']_vars

C19_Witness ==
    /\ Managed(last, "update_record", "ok")
    /\ Topic(store, last.topic).updatedAt > Topic(store, last.topic).createdAt
    /\ Topic(store, last.topic).updatedAt
         > RecordsOf(store, last.topic)[1].updatedAt

\* the place in the topic of the record update_record writes: the first with
\* the id
WrittenPlace(s, topic, recordId) ==
    CHOOSE ri \in DOMAIN RecordsOf(s, topic) :
        /\ RecordsOf(s, topic)[ri].id = recordId
        /\ \A rj \in 1..(ri - 1) : RecordsOf(s, topic)[rj].id # recordId

\* the value of a field after an update with the argument given
Updated(given, old) == IF given # <<>> THEN given ELSE old

\* C20: in update_topic and update_record an empty argument leaves the field
\* as it is: the description and the tags of a topic, the content and the
\* context of a record are overwritten exactly when the value given is not
\* empty, so that no update turns a non-empty one of them into an empty one.
C20_EmptyLeavesUnchanged ==
    [][/\ Managed(last', "update_topic", "ok") =>
             LET old == Topic(store, last'.topic)
                 new == Topic(store', last'.topic)
             IN /\ new.description = Updated(last'.description, old.description)
                /\ new.tags = Updated(last'.tags, old.tags)
                /\ old.description # <<>> => new.description # <<>>
                /\ old.tags # <<>> => new.tags # <<>>
                /\ \A ri \in DOMAIN old.records :
                      /\ new.records[ri].content = old.records[ri].content
                      /\ new.records[ri].context = old.records[ri].context
       /\ Managed(last', "update_record", "ok") =>
             LET old == Topic(store, last'.topic)
                 new == Topic(store', last'.topic)
                 wi == WrittenPlace(store, last'.topic, last'.recordId)
             IN /\ DOMAIN new.records = DOMAIN old.records
                /\ new.records[wi].content
                     = Updated(last'.content, old.records[wi].content)
                /\ new.records[wi].context
                     = Updated(last'.context, old.records[wi].context)
                /\ \A ri \in DOMAIN old.records :
                      /\ old.records[ri].content # <<>>
                            => new.records[ri].content # <<>>
                      /\ old.records[ri].context # <<>>
                            => new.records[ri].context # <<>>
                /\ new.description = old.description
                /\ new.tags = old.tags]_vars

C20_Witness ==
    /\ Managed(last, "update_record", "ok")
    /\ last.content = Empty
    /\ last.context = Empty
    /\ RecordsOf(store, last.topic)[1].content = <<"b">>
    /\ RecordsOf(store, last.topic)[1].context = <<"c">>
    /\ Topic(store, last.topic).description = <<"e">>
    /\ Topic(store, last.topic).tags = <<"g">>

\* C21: a successful update_record sets the importance of the record it
\* writes to the value given when that is low or high and leaves it as it was
\* when the value given is medium, so that no update_record turns a low or
\* high record into a medium one; no other record's importance changes.
C21_MediumLeavesImportance ==
    [][Managed(last', "update_record", "ok") =>
          LET old == RecordsOf(store, last'.topic)
              new == RecordsOf(store', last'.topic)
              wi == WrittenPlace(store, last'.topic, last'.recordId)
          IN /\ DOMAIN new = DOMAIN old
             /\ last'.importance \in {"low", "high"}
                   => new[wi].importance = last'.importance
             /\ last'.importance = "medium"
                   => new[wi].importance = old[wi].importance
             /\ \A ri \in DOMAIN old :
                   /\ old[ri].importance \in {"low", "high"}
                         => new[ri].importance # "medium"
                   /\ ri # wi => new[ri].importance = old[ri].importance]_vars

C21_Witness ==
    /\ Managed(last, "update_record", "ok")
    /\ last.importance = "medium"
    /\ RecordsOf(store, last.topic)[1].id = last.recordId
    /\ RecordsOf(store, last.topic)[1].importance = "high"

\* the map { ...old, ...given } key by key
Overridden(old, given) ==
    [k \in (DOMAIN old) \cup (DOMAIN given) |->
        IF k \in DOMAIN given THEN given[k] ELSE old[k]]

\* C22: a successful update_record with a non-empty metadata map leaves the
\* record's metadata equal to the old map overridden by the given one (the
\* keys given take the values given, the other old keys keep theirs, no key
\* is removed), an empty map leaves the metadata as it was, and a map whose
\* values the record already has (the same map applied before) changes
\* nothing.
C22_MetadataShallowMerge ==
    [][Managed(last', "update_record", "ok") =>
          LET old == RecordsOf(store, last'.topic)
              new == RecordsOf(store', last'.topic)
              wi == WrittenPlace(store, last'.topic, last'.recordId)
              given == last'.metadata
          IN /\ DOMAIN new = DOMAIN old
             /\ new[wi].metadata = Overridden(old[wi].metadata, given)
             /\ DOMAIN old[wi].metadata \subseteq DOMAIN new[wi].metadata
             /\ DOMAIN given = {} => new[wi].metadata = old[wi].metadata
             /\ (\A k \in DOMAIN given :
                    k \in DOMAIN old[wi].metadata /\ old[wi].metadata[k] = given[k])
                   => new[wi].metadata = old[wi].metadata
             /\ \A ri \in DOMAIN old :
                   ri # wi => new[ri].metadata = old[ri].metadata]_vars

C22_Witness ==
    /\ Managed(last, "update_record", "ok")
    /\ last.metadata = MetaKN
    /\ RecordsOf(store, last.topic)[1].id = last.recordId
    /\ RecordsOf(store, last.topic)[1].metadata
         = ("k" :> StrVal(<<"3">>)) @@ ("m" :> StrVal(<<"2">>)) @@ ("n" :> NumVal(4))

\* the sequence without its i-th element
Without(seq, i) ==
    [j \in 1..(Len(seq) - 1) |-> IF j < i THEN seq[j] ELSE seq[j + 1]]

\* C23: a successful delete_record(topic, id) removes exactly one record, the
\* first with the id in the topic, and returns it; the other records of the
\* topic keep their fields and their order, the records of the other topics
\* stay, and totalRecords goes down by exactly 1.
C23_DeleteRecordRemovesFirst ==
    [][Managed(last', "delete_record", "ok") =>
          LET old == RecordsOf(store, last'.topic)
              wi == WrittenPlace(store, last'.topic, last'.recordId)
          IN /\ Holds(store', last'.topic)
             /\ RecordsOf(store', last'.topic) = Without(old, wi)
             /\ last'.removedRecord = old[wi]
             /\ last'.removedRecord.id = last'.recordId
             /\ RecordCount(store') = RecordCount(store) - 1
             /\ \A t \in TopicNames \ {last'.topic} :
                   /\ Holds(store', t) <=> Holds(store, t)
                   /\ Holds(store, t) => RecordsOf(store', t) = RecordsOf(store, t)
             /\ memoryStats'.totalRecords = memoryStats.totalRecords - 1]_vars

\* the record removed is the first of two with the id, told from the second
\* by the content an update_record gave it
C23_Witness ==
    /\ Managed(last, "delete_record", "ok")
    /\ last.removedRecord.content = <<"b">>
    /\ Len(RecordsOf(store, last.topic)) = 1
    /\ RecordsOf(store, last.topic)[1].id = last.recordId
    /\ RecordsOf(store, last.topic)[1].content = <<"a">>

\* the calls that change the store when they succeed
MutatingActions ==
    {"create_topic", "create_record", "update_topic", "update_record",
     "delete_topic", "delete_record"}

Mutated(l) ==
    l.tool = "memory_manage" /\ l.outcome = "ok" /\ l.action \in MutatingActions

\* C24: accessCount is the number of successful mutating memory_manage calls
\* made so far, update_topic and update_record among them, and lastAccessTime
\* is the clock reading of the latest of them, null before the first: both
\* start at 0 and null, every such call adds 1 and stores its reading, and no
\* other call touches them.
C24_EveryMutationCounted ==
    /\ memoryStats.accessCount = 0
    /\ memoryStats.lastAccessTime = Null
    /\ [][IF Mutated(last')
          THEN /\ memoryStats'.accessCount = memoryStats.accessCount + 1
               /\ memoryStats'.lastAccessTime = Some(clock')
          ELSE /\ memoryStats'.accessCount = memoryStats.accessCount
               /\ memoryStats'.lastAccessTime = memoryStats.lastAccessTime]_vars

\* C25: stats reports the average record size 0 whenever the store holds no
\* record, and otherwise totalMemorySize divided by the number of records the
\* store holds.
C25_AverageOverStoredRecords ==
    last.tool = "memory_stats" =>
        last.averageRecordSize =
            IF RecordCount(store) = 0
            THEN Null
            ELSE Some(<<memoryStats.totalMemorySize, RecordCount(store)>>)

\* the place of the topic in the store
TopicPlace(s, topic) == CHOOSE i \in DOMAIN s : s[i].name = topic

\* C26: list_topics returns the empty sequence for the empty store and
\* otherwise one summary per stored topic in the order in which the stored
\* topics were created: a created topic is placed last (one deleted and
\* created again too), and no call changes the order of two topics that stay.
C26_ListedInCreationOrder ==
    [][/\ Queried(last', "list_topics", "ok") =>
             /\ Len(last'.topics) = Len(store')
             /\ store' = <<>> => last'.topics = <<>>
             /\ \A i \in DOMAIN store' :
                   /\ last'.topics[i].name = store'[i].name
                   /\ last'.topics[i].count = Len(store'[i].records)
                   /\ \A j \in DOMAIN store' :
                         i # j => last'.topics[i].name # last'.topics[j].name
       /\ Managed(last', "create_topic", "ok") =>
             /\ ~Holds(store, last'.topic)
             /\ Len(store') = Len(store) + 1
             /\ store'[Len(store')].name = last'.topic
       /\ \A a, b \in TopicNames :
             (Holds(store, a) /\ Holds(store, b)
                /\ Holds(store', a) /\ Holds(store', b)) =>
                 (TopicPlace(store, a) < TopicPlace(store, b)
                    <=> TopicPlace(store', a) < TopicPlace(store', b))
       /\ \A a \in TopicNames :
             (~Holds(store, a) /\ Holds(store', a)) =>
                 (Managed(last', "create_topic", "ok") /\ last'.topic = a)]_vars

\* t2, then t1 created at a later reading by the fourth of four calls that
\* create or delete a topic: a topic was deleted and one created again
C26_Witness ==
    /\ Queried(last, "list_topics", "ok")
    /\ Len(last.topics) = 2
    /\ last.topics[1].name = "t2"
    /\ last.topics[2].name = "t1"
    /\ last.topics[2].createdAt > last.topics[1].createdAt
    /\ memoryStats.accessCount = 4
    /\ memoryStats.totalRecords = 0

\* C27: a confirmed delete_topic leaves the store without the topic, and its
\* records with it: get_record, search and view_topic return only records the
\* store holds at the place they name, a topic gains records by create_record
\* alone, and a create_topic (of a deleted name too) stores a topic with no
\* record whose createdAt is a reading of this call.
C27_DeletedRecordsStayGone ==
    [][/\ Managed(last', "delete_topic", "ok") => ~Holds(store', last'.topic)
       /\ Managed(last', "create_topic", "ok") =>
             /\ Holds(store', last'.topic)
             /\ RecordsOf(store', last'.topic) = <<>>
             /\ Topic(store', last'.topic).createdAt \in clock..clock'
       /\ \A t \in TopicNames :
             Holds(store', t) =>
                LET before == IF Holds(store, t) THEN Len(RecordsOf(store, t)) ELSE 0
                IN Len(RecordsOf(store', t)) > before =>
                      (Managed(last', "create_record", "ok") /\ last'.topic = t)
       /\ Queried(last', "get_record", "ok") =>
             /\ Holds(store', last'.topic)
             /\ last'.index \in DOMAIN RecordsOf(store', last'.topic)
             /\ last'.foundRecord = RecordsOf(store', last'.topic)[last'.index]
       /\ Queried(last', "view_topic", "ok") =>
             /\ Holds(store', last'.topic)
             /\ \A i \in DOMAIN last'.displayRecords :
                   LET shown == last'.displayRecords[i]
                   IN /\ shown.index \in DOMAIN RecordsOf(store', last'.topic)
                      /\ shown.record = RecordsOf(store', last'.topic)[shown.index]
       /\ Queried(last', "search", "ok") =>
             \A i \in DOMAIN last'.displayResults :
                LET shown == last'.displayResults[i]
                IN /\ Holds(store', shown.topic)
                   /\ shown.index \in DOMAIN RecordsOf(store', shown.topic)
                   /\ shown.record = RecordsOf(store', shown.topic)[shown.index]]_vars

\* view_topic of a topic created again at a later reading after it was deleted
\* with a record in it: the four calls counted are create_topic,
\* create_record, delete_topic and create_topic
C27_Witness ==
    /\ Queried(last, "view_topic", "ok")
    /\ last.total = 0
    /\ last.createdAt = 1
    /\ Len(store) = 1
    /\ memoryStats.accessCount = 4
    /\ memoryStats.totalTopics = 1
    /\ memoryStats.totalRecords = 1

\* C29: list_topics, view_topic, search, get_record and stats are read-only:
\* whatever their outcome they leave the store, the order of the records of
\* every topic included, and the five counters of the statistics as they
\* were.
C29_QueriesReadOnly ==
    [][last'.tool \in {"memory_query", "memory_stats"} =>
          /\ store' = store
          /\ memoryStats' = memoryStats]_vars

\* view_topic shows the second record of the topic first, and the topic
\* still holds it second
C29_Witness ==
    /\ Queried(last, "view_topic", "ok")
    /\ last.sortBy = "importance"
    /\ last.total = 2
    /\ last.displayRecords[1].index = 2
    /\ RecordsOf(store, last.topic)[1].importance = "medium"
    /\ RecordsOf(store, last.topic)[2].importance = "high"
    /\ memoryStats.accessCount = 3

\* the sum of the serialized sizes of the records of the topic
RECURSIVE SizeOfRecords(_)
SizeOfRecords(records) ==
    IF records = <<>> THEN 0
    ELSE calculateRecordSize(Head(records)) + SizeOfRecords(Tail(records))

\* the same sum over the whole store
RECURSIVE StoredSize(_)
StoredSize(s) ==
    IF s = <<>> THEN 0
    ELSE SizeOfRecords(Head(s).records) + StoredSize(Tail(s))

\* C30: in every reachable state totalMemorySize is the sum of the serialized
\* sizes of the records the store holds.
C30_TotalSizeIsStoredSize ==
    memoryStats.totalMemorySize = StoredSize(store)

\* the call taken up by the step that ends in l: a new call in flight, or a
\* query or a refused call, which return in the same step
TakenUp(before, l) ==
    \/ Len(l.inflight) > Len(before.inflight)
    \/ l.tool \in {"memory_query", "memory_stats"}
    \/ l.outcome \in ErrorOutcomes

\* what a returning call has added to the topics, to the records and to the
\* calls counted since it began
TopicsAdded(l) ==
    CASE l.action = "create_topic" -> 1
      [] l.action = "delete_topic" -> 0 - 1
      [] OTHER -> 0

RecordsAdded(l) ==
    CASE l.action = "create_record" -> 1
      [] l.action = "delete_record" -> 0 - 1
      [] l.action = "delete_topic" ->
            0 - Len(RecordsOf(l.before.store, l.topic))
      [] OTHER -> 0

CallsAdded(l) ==
    IF l.action \in {"update_topic", "update_record"} THEN 0 ELSE 1

\* C28: every call is atomic with respect to every other: a call is taken up
\* only while no other call is between its tests and its last write, so that
\* list_topics and stats see as many topics in the store as the counter says
\* (never the store of a half-made create_topic or delete_topic), and a
\* returning call leaves the state it began in changed by its own writes
\* alone: the calls take effect one after another in the order they began.
C28_CallsAreAtomic ==
    [][/\ TakenUp(last, last') => last.inflight = <<>>
       /\ Queried(last', "list_topics", "ok") =>
             last'.size = memoryStats'.totalTopics
       /\ last'.tool = "memory_stats" => last'.totalTopics = Len(store')
       /\ (last'.tool = "memory_manage" /\ last'.outcome = "ok") =>
             /\ last'.inflight = <<>>
             /\ Len(store') = Len(last'.before.store) + TopicsAdded(last')
             /\ RecordCount(store')
                  = RecordCount(last'.before.store) + RecordsAdded(last')
             /\ memoryStats'.accessCount
                  = last'.before.memoryStats.accessCount + CallsAdded(last')]_vars

\* create_record between its push and its updateStats: the store holds a
\* record more than the counter says, and no other call is in flight
C28_Witness ==
    /\ last.outcome = "running"
    /\ Len(last.inflight) = 1
    /\ last.inflight[1].call.action = "create_record"
    /\ last.inflight[1].pc = 1
    /\ RecordCount(store) = memoryStats.totalRecords + 1

\* C31: no sequence of calls drives a counter of the statistics below zero:
\* in every reachable state totalRecords and totalMemorySize are >= 0, after a
\* record was enlarged by update_record and then removed by delete_record too.
C31_CountersNotNegative ==
    /\ memoryStats.totalRecords >= 0
    /\ memoryStats.totalMemorySize >= 0

\* C32: whenever stats computes the average number of records per topic, which
\* it does exactly when totalRecords > 0, the totalTopics it divides by is
\* > 0: no reachable state has totalRecords > 0 and totalTopics = 0.
C32_DivisorNotZero ==
    /\ memoryStats.totalRecords > 0 => memoryStats.totalTopics > 0
    /\ (last.tool = "memory_stats" /\ last.totalRecords > 0) =>
          last.totalTopics > 0

\* the step deletes the record the call before it created: the two calls
\* name the same topic and id, and the first record with the id is the one
\* create_record put last
DeletesJustCreated(l, s, m) ==
    /\ Managed(l, "create_record", "ok")
    /\ Managed(m, "delete_record", "ok")
    /\ m.topic = l.topic
    /\ m.recordId = l.recordId
    /\ WrittenPlace(s, l.topic, l.recordId) = Len(RecordsOf(s, l.topic))

\* C33: a successful create_record followed by the successful delete_record of
\* the record it created gives back totalRecords, totalMemorySize and the
\* topic's records: create_record appends one record, adds 1 and the size of
\* the record; the delete_record takes that record off the end, subtracts 1 and
\* the same size; of the rest only accessCount (1 more per call),
\* lastAccessTime and the topic's updatedAt change.
C33_CreateThenDeleteRestores ==
    [][/\ Managed(last', "create_record", "ok") =>
             LET old == RecordsOf(store, last'.topic)
                 new == RecordsOf(store', last'.topic)
             IN /\ Len(new) = Len(old) + 1
                /\ SubSeq(new, 1, Len(old)) = old
                /\ new[Len(new)].id = last'.recordId
                /\ memoryStats'.totalRecords = memoryStats.totalRecords + 1
                /\ memoryStats'.totalMemorySize
                     = memoryStats.totalMemorySize
                         + calculateRecordSize(new[Len(new)])
                /\ memoryStats'.accessCount = memoryStats.accessCount + 1
       /\ DeletesJustCreated(last, store, last') =>
             LET old == RecordsOf(store, last'.topic)
                 new == RecordsOf(store', last'.topic)
             IN /\ new = SubSeq(old, 1, Len(old) - 1)
                /\ last'.removedRecord = old[Len(old)]
                /\ memoryStats'.totalRecords = memoryStats.totalRecords - 1
                /\ memoryStats'.totalMemorySize
                     = memoryStats.totalMemorySize
                         - calculateRecordSize(old[Len(old)])
                /\ memoryStats'.accessCount = memoryStats.accessCount + 1
                /\ memoryStats'.totalTopics = memoryStats.totalTopics
                /\ Len(store') = Len(store)
                /\ \A i \in DOMAIN store :
                      /\ store'[i].name = store[i].name
                      /\ store'[i].id = store[i].id
                      /\ store'[i].description = store[i].description
                      /\ store'[i].tags = store[i].tags
                      /\ store'[i].createdAt = store[i].createdAt
                      /\ store[i].name # last'.topic => store'[i] = store[i]]_vars

\* the third counted call deleted the record the second created: the topic
\* is empty again and both counters are back at 0
C33_Witness ==
    /\ Managed(last, "delete_record", "ok")
    /\ last.removedRecord.content = <<"a">>
    /\ RecordsOf(store, last.topic) = <<>>
    /\ memoryStats.totalRecords = 0
    /\ memoryStats.totalMemorySize = 0
    /\ memoryStats.totalTopics = 1
    /\ memoryStats.accessCount = 3

\* C34: update_record and delete_record look the id up in the records of the
\* topic named alone: when no record of that topic has the id, a record of
\* another topic or none at all, the call ends in NotFound and the store and
\* the statistics stay as they were; when a record of the topic has it the
\* call succeeds.
C34_LookupInNamedTopicOnly ==
    [][(last'.tool = "memory_manage"
          /\ last'.action \in {"update_record", "delete_record"}
          /\ last'.recordId # Empty) =>
          IF last'.recordId \in IdsIn(store, last'.topic)
          THEN last'.outcome = "ok"
          ELSE /\ last'.outcome = "NotFound"
               /\ store' = store
               /\ memoryStats' = memoryStats]_vars

\* delete_record is refused on a topic that holds a record, for an id that a
\* record of the other topic has
C34_Witness ==
    /\ Managed(last, "delete_record", "NotFound")
    /\ Holds(store, last.topic)
    /\ RecordsOf(store, last.topic) # <<>>
    /\ last.recordId \notin IdsIn(store, last.topic)
    /\ IdStored(store, last.recordId)

\* C35: with a clock that never goes back, in every reachable state a topic t
\* has t.createdAt <= t.updatedAt, and a record e of t has
\* t.createdAt <= e.createdAt <= e.updatedAt <= t.updatedAt.
C35_TimestampsOrdered ==
    \A i \in DOMAIN store :
        /\ store[i].createdAt <= store[i].updatedAt
        /\ \A ri \in DOMAIN store[i].records :
              LET e == store[i].records[ri]
              IN /\ store[i].createdAt <= e.createdAt
                 /\ e.createdAt <= e.updatedAt
                 /\ e.updatedAt <= store[i].updatedAt

\* a record whose createdAt and updatedAt were read in different
\* milliseconds, in a topic created before it and updated with it
C35_Witness ==
    /\ Managed(last, "create_record", "ok")
    /\ Topic(store, last.topic).createdAt < Topic(store, last.topic).updatedAt
    /\ \E ri \in DOMAIN RecordsOf(store, last.topic) :
          LET e == RecordsOf(store, last.topic)[ri]
          IN /\ e.id = last.recordId
             /\ e.createdAt < e.updatedAt
             /\ e.updatedAt = Topic(store, last.topic).updatedAt

\* the topics other than the one the call names are held before the call
\* exactly when they are held after it, with the same fields and records
OthersKept(s, t, l) ==
    \A u \in TopicNames \ {l.topic} :
        /\ Holds(t, u) <=> Holds(s, u)
        /\ Holds(s, u) => Topic(t, u) = Topic(s, u)

\* C36 as stated: a call of memory_manage naming T, successful or not, leaves
\* every other topic with the same fields and records and at the same
\* position of the listing.
C36_OthersKeepPosition ==
    [][last'.tool = "memory_manage" =>
          /\ OthersKept(store, store', last')
          /\ \A u \in TopicNames \ {last'.topic} :
                Holds(store, u) => TopicPlace(store', u) = TopicPlace(store, u)]_vars

\* C36: a call of memory_manage naming T, successful or not, leaves every
\* other topic with the same name, id, description, tags, records, createdAt
\* and updatedAt; the other topic keeps its position of the listing too,
\* unless the call is a successful delete_topic of a T listed before it, which
\* moves it one position up.
C36_OthersKeptAndMovedUp ==
    [][last'.tool = "memory_manage" =>
          /\ OthersKept(store, store', last')
          /\ \A u \in TopicNames \ {last'.topic} :
                Holds(store, u) =>
                   TopicPlace(store', u) =
                      IF Managed(last', "delete_topic", "ok")
                           /\ TopicPlace(store, last'.topic) < TopicPlace(store, u)
                      THEN TopicPlace(store, u) - 1
                      ELSE TopicPlace(store, u)]_vars

\* a delete_topic that left the other topic, which holds a record
C36_Witness ==
    /\ Managed(last, "delete_topic", "ok")
    /\ Len(store) = 1
    /\ store[1].name # last.topic
    /\ Len(store[1].records) = 1
    /\ memoryStats.accessCount = 4

\* C37: in every reachable state every stored record has non-empty content:
\* a create_record refused for its empty content stores nothing and counts
\* nothing, a record is stored with the content given, and no update_record
\* leaves a record with empty content.
C37_ContentNeverEmpty ==
    [][/\ \A i \in DOMAIN store' :
             \A ri \in DOMAIN store'[i].records :
                store'[i].records[ri].content # <<>>
       /\ Managed(last', "create_record", "ValidationError") =>
             (store' = store /\ memoryStats' = memoryStats)
       /\ Managed(last', "update_record", "ok") =>
             LET wi == WrittenPlace(store, last'.topic, last'.recordId)
             IN last'.content = <<>> =>
                   RecordsOf(store', last'.topic)[wi].content
                     = RecordsOf(store, last'.topic)[wi].content]_vars

\* an update_record with empty content on a record that keeps its own
C37_Witness ==
    /\ Managed(last, "update_record", "ok")
    /\ last.content = Empty
    /\ last.context = <<"c">>
    /\ RecordsOf(store, last.topic)[1].content = <<"a">>
    /\ RecordsOf(store, last.topic)[1].context = <<"c">>

====
